---- MODULE Spec2Model ----
(***************************************************************************)
(* Model of the inventory data-access layer: the validator/transformer of  *)
(* lib/types.js and the query service of lib/database.js, run against a    *)
(* model of the remote store (tables inventory_items and categories).      *)
(*                                                                         *)
(* JavaScript values are records tagged by the field t:                    *)
(*   undefined, null, number (n + f/2, so f = 1 is a value such as 10.5),  *)
(*   string (s), boolean (b), error (an Error object, s is its message),   *)
(*   array (items), object (the nine columns of an inventory item, an      *)
(*   absent key is the value undefined).                                   *)
(***************************************************************************)
EXTENDS Integers, Sequences, FiniteSets, TLC

\* ------------------------------------------------------------------------
\* JavaScript values
\* ------------------------------------------------------------------------
Undef == [t |-> "undefined"]

Nul == [t |-> "null"]

Num(n) == [t |-> "number", n |-> n, f |-> 0]

Half(n) == [t |-> "number", n |-> n, f |-> 1]

Str(s) == [t |-> "string", s |-> s]

Bool(b) == [t |-> "boolean", b |-> b]

JsError(msg) == [t |-> "error", s |-> msg]

Arr(a) == [t |-> "array", items |-> a]

IsNullish(v) == v.t \in {"undefined", "null"}

\* ToBoolean: undefined, null, 0, '' and false are falsy, all else truthy
Truthy(v) ==
  CASE v.t \in {"undefined", "null"} -> FALSE
    [] v.t = "number" -> v.n # 0 \/ v.f # 0
    [] v.t = "string" -> v.s # ""
    [] v.t = "boolean" -> v.b
    [] OTHER -> TRUE

\* Number.isInteger
IsInteger(v) == v.t = "number" /\ v.f = 0

\* a <= b on two numbers
NumLeq(a, b) == a.n < b.n \/ (a.n = b.n /\ a.f <= b.f)

\* v < 0, evaluated only after Number.isInteger(v) held
IsNegative(v) == v.t = "number" /\ v.n < 0

WhiteSpace == {" ", "\t"}

RECURSIVE TrimStart(_)
TrimStart(s) ==
  IF Len(s) = 0 THEN s
  ELSE IF SubSeq(s, 1, 1) \in WhiteSpace THEN TrimStart(SubSeq(s, 2, Len(s)))
  ELSE s

RECURSIVE TrimEnd(_)
TrimEnd(s) ==
  IF Len(s) = 0 THEN s
  ELSE IF SubSeq(s, Len(s), Len(s)) \in WhiteSpace
       THEN TrimEnd(SubSeq(s, 1, Len(s) - 1))
  ELSE s

\* String.prototype.trim
Trim(s) == TrimEnd(TrimStart(s))

\* String.prototype.includes
Includes(s, needle) ==
  \E i \in 1..(Len(s) - Len(needle) + 1) : SubSeq(s, i, i + Len(needle) - 1) = needle

\* Array.prototype.join(', ') on a sequence of strings
RECURSIVE Join(_)
Join(msgs) ==
  IF Len(msgs) = 0 THEN ""
  ELSE IF Len(msgs) = 1 THEN msgs[1]
  ELSE msgs[1] \o ", " \o Join(Tail(msgs))

\* the text a template literal gives for the message of a thrown or returned
\* error value: the string itself, or 'undefined' when there is none
TemplateText(v) == IF v.t = "string" THEN v.s ELSE "undefined"

\* what `x.prop` throws when x is undefined or null
TypeErrorRead(v, prop) ==
  JsError("Cannot read properties of " \o v.t \o " (reading '" \o prop \o "')")

\* what `x.trim()` throws when x has no trim method
TypeErrorTrim(path) == JsError(path \o ".trim is not a function")

\* ------------------------------------------------------------------------
\* Objects: inventory items, update payloads, stored rows
\* ------------------------------------------------------------------------
ItemObj(id, name, sku, quantity, category, threshold, description, created, updated) ==
  [t |-> "object", id |-> id, name |-> name, sku |-> sku, quantity |-> quantity,
   category |-> category, low_stock_threshold |-> threshold,
   description |-> description, created_at |-> created, updated_at |-> updated]

\* an object literal with the six writable columns only
Candidate(name, sku, quantity, category, threshold, description) ==
  ItemObj(Undef, name, sku, quantity, category, threshold, description, Undef, Undef)

\* ------------------------------------------------------------------------
\* lib/types.js: validation
\* ------------------------------------------------------------------------
MaxNameLen == 255

MaxSkuLen == 100

MaxCategoryLen == 100

NoCheckError == <<>>

\* a string-field check that also refuses a value of exactly the limit
CheckStringFieldInclusive(v, field, path, limit, requiredMsg, lengthMsg) ==
  IF ~Truthy(v) THEN [thrown |-> FALSE, errs |-> <<[field |-> field, msg |-> requiredMsg]>>]
  ELSE IF v.t # "string" THEN [thrown |-> TRUE, err |-> TypeErrorTrim(path)]
  ELSE IF Len(Trim(v.s)) = 0
       THEN [thrown |-> FALSE, errs |-> <<[field |-> field, msg |-> requiredMsg]>>]
  ELSE IF Len(v.s) >= limit
       THEN [thrown |-> FALSE, errs |-> <<[field |-> field, msg |-> lengthMsg]>>]
  ELSE [thrown |-> FALSE, errs |-> NoCheckError]

\* one string-field check: the entry it adds to errors, or the TypeError it
\* throws when the value is truthy but has no trim method
CheckStringField(v, field, path, limit, requiredMsg, lengthMsg) ==
  IF ~Truthy(v) THEN [thrown |-> FALSE, errs |-> <<[field |-> field, msg |-> requiredMsg]>>]
  ELSE IF v.t # "string" THEN [thrown |-> TRUE, err |-> TypeErrorTrim(path)]
  ELSE IF Len(Trim(v.s)) = 0
       THEN [thrown |-> FALSE, errs |-> <<[field |-> field, msg |-> requiredMsg]>>]
  ELSE IF Len(v.s) > limit
       THEN [thrown |-> FALSE, errs |-> <<[field |-> field, msg |-> lengthMsg]>>]
  ELSE [thrown |-> FALSE, errs |-> NoCheckError]

\* a quantity check that refuses 0
CheckQuantityPositive(v) ==
  IF v.t \in {"undefined", "null"}
  THEN <<[field |-> "quantity", msg |-> "Quantity is required"]>>
  ELSE IF ~IsInteger(v) \/ v.n <= 0
       THEN <<[field |-> "quantity", msg |-> "Quantity must be a non-negative integer"]>>
  ELSE NoCheckError

CheckQuantity(v) ==
  IF v.t \in {"undefined", "null"}
  THEN <<[field |-> "quantity", msg |-> "Quantity is required"]>>
  ELSE IF ~IsInteger(v) \/ IsNegative(v)
       THEN <<[field |-> "quantity", msg |-> "Quantity must be a non-negative integer"]>>
  ELSE NoCheckError

CheckThreshold(v) ==
  IF v.t \notin {"undefined", "null"} /\ (~IsInteger(v) \/ IsNegative(v))
  THEN <<[field |-> "low_stock_threshold",
          msg |-> "Low stock threshold must be a non-negative integer"]>>
  ELSE NoCheckError

\* a validator that reports the first failing field only
validateInventoryItemFirstError(item) ==
  IF IsNullish(item) THEN [thrown |-> TRUE, err |-> TypeErrorRead(item, "name")]
  ELSE
    LET cn == CheckStringField(item.name, "name", "item.name", MaxNameLen,
                "Name is required", "Name must be less than 255 characters")
        cs == CheckStringField(item.sku, "sku", "item.sku", MaxSkuLen,
                "SKU is required", "SKU must be less than 100 characters")
        cc == CheckStringField(item.category, "category", "item.category", MaxCategoryLen,
                "Category is required", "Category must be less than 100 characters")
    IN IF cn.thrown THEN [thrown |-> TRUE, err |-> cn.err]
       ELSE IF cs.thrown THEN [thrown |-> TRUE, err |-> cs.err]
       ELSE IF cc.thrown THEN [thrown |-> TRUE, err |-> cc.err]
       ELSE LET errors == cn.errs \o cs.errs \o CheckQuantity(item.quantity)
                            \o cc.errs \o CheckThreshold(item.low_stock_threshold)
            IN [thrown |-> FALSE, isValid |-> Len(errors) = 0,
                errors |-> IF Len(errors) > 1 THEN <<errors[1]>> ELSE errors]

\* errors is the sequence of entries in insertion order (name, sku, quantity,
\* category, low_stock_threshold), which is the order of Object.values
validateInventoryItem(item) ==
  IF IsNullish(item) THEN [thrown |-> TRUE, err |-> TypeErrorRead(item, "name")]
  ELSE
    LET cn == CheckStringField(item.name, "name", "item.name", MaxNameLen,
                "Name is required", "Name must be less than 255 characters")
        cs == CheckStringField(item.sku, "sku", "item.sku", MaxSkuLen,
                "SKU is required", "SKU must be less than 100 characters")
        cc == CheckStringField(item.category, "category", "item.category", MaxCategoryLen,
                "Category is required", "Category must be less than 100 characters")
    IN IF cn.thrown THEN [thrown |-> TRUE, err |-> cn.err]
       ELSE IF cs.thrown THEN [thrown |-> TRUE, err |-> cs.err]
       ELSE IF cc.thrown THEN [thrown |-> TRUE, err |-> cc.err]
       ELSE LET errors == cn.errs \o cs.errs \o CheckQuantity(item.quantity)
                            \o cc.errs \o CheckThreshold(item.low_stock_threshold)
            IN [thrown |-> FALSE, isValid |-> Len(errors) = 0, errors |-> errors]

\* Object.values(validation.errors)
ErrorValues(errors) == [i \in 1..Len(errors) |-> errors[i].msg]

\* ------------------------------------------------------------------------
\* lib/types.js: transformation and the low-stock predicate
\* ------------------------------------------------------------------------
DefaultThreshold == 10

\* a ?? b
OrElseNullish(a, b) == IF IsNullish(a) THEN b ELSE a

\* a || b
OrElse(a, b) == IF Truthy(a) THEN a ELSE b

transformInventoryItem(rawItem) ==
  ItemObj(rawItem.id, rawItem.name, rawItem.sku, rawItem.quantity, rawItem.category,
          OrElse(rawItem.low_stock_threshold, Num(DefaultThreshold)),
          OrElse(rawItem.description, Str("")),
          rawItem.created_at, rawItem.updated_at)

\* isLowStock with the boundary left out
isLowStockStrict(item) == ~NumLeq(item.low_stock_threshold, item.quantity)

isLowStock(item) == NumLeq(item.quantity, item.low_stock_threshold)

\* ------------------------------------------------------------------------
\* The remote store: tables, requests and answers
\* ------------------------------------------------------------------------
UniqueViolation == "23505"

NoRowsCode == "PGRST116"

StoreError(code, message) == [t |-> "object", code |-> code, message |-> message]

\* an awaited store call resolves to {data, error} or rejects with a value
Answer(data) == [rejected |-> FALSE, data |-> data, error |-> Nul]

Fail(code, message) == [rejected |-> FALSE, data |-> Nul, error |-> StoreError(code, message)]

Reject(v) == [rejected |-> TRUE, value |-> v]

\* failures of the transport: the awaited call rejects with an Error, with a
\* value that has no message property, or with undefined
Rejections == {Reject(JsError("fetch failed")), Reject(Str("aborted")), Reject(Undef)}

\* failures the store reports that do not depend on the rows: any request can
\* time out, a write can be refused by a row-level policy
FaultAnswers(req) ==
  {Fail("57014", "canceling statement due to timeout")}
  \cup (IF req.kind \in {"insert", "update"}
        THEN {Fail("42501", "policy 'SKU already exists check' denies the write")}
        ELSE {})
  \cup Rejections

UpperCase == "ABCDEFGHIJKLMNOPQRSTUVWXYZ"

LowerCase == "abcdefghijklmnopqrstuvwxyz"

LowerChar(c) ==
  IF \E i \in 1..26 : SubSeq(UpperCase, i, i) = c
  THEN LET i == CHOOSE j \in 1..26 : SubSeq(UpperCase, j, j) = c IN SubSeq(LowerCase, i, i)
  ELSE c

RECURSIVE ToLower(_)
ToLower(s) ==
  IF Len(s) = 0 THEN s ELSE LowerChar(SubSeq(s, 1, 1)) \o ToLower(SubSeq(s, 2, Len(s)))

\* column ILIKE '%term%'
ILike(v, term) == v.t = "string" /\ Includes(ToLower(v.s), ToLower(term))

SelectQuery(tbl, orTerm, eqCategory, eqId, gte, lte, order, ascending, range, single) ==
  [kind |-> "select", table |-> tbl, orTerm |-> orTerm, eqCategory |-> eqCategory,
   eqId |-> eqId, gte |-> gte, lte |-> lte, order |-> order, ascending |-> ascending,
   range |-> range, single |-> single]

NoRange == [t |-> "null"]

Range(from, to) == [t |-> "range", from |-> from, to |-> to]

\* the WHERE clause of a select
Matches(row, q) ==
  /\ q.orTerm.t = "string" => (ILike(row.name, q.orTerm.s) \/ ILike(row.sku, q.orTerm.s))
  /\ q.eqCategory.t # "null" => row.category = q.eqCategory
  /\ q.eqId.t # "null" => row.id = q.eqId
  /\ q.gte.t # "null" => NumLeq(q.gte, row.quantity)
  /\ q.lte.t # "null" => NumLeq(row.quantity, q.lte)

RECURSIVE MatchingRows(_, _)
MatchingRows(rows, q) ==
  IF Len(rows) = 0 THEN <<>>
  ELSE IF Matches(rows[1], q) THEN <<rows[1]>> \o MatchingRows(Tail(rows), q)
  ELSE MatchingRows(Tail(rows), q)

\* the collation of the characters the model's strings are made of
Collation == " -0123456789ABCDEFGHIJKLMNOPQRSTUVWXYZabcdefghijklmnopqrstuvwxyz"

CharRank(c) ==
  IF \E i \in 1..Len(Collation) : SubSeq(Collation, i, i) = c
  THEN CHOOSE i \in 1..Len(Collation) : SubSeq(Collation, i, i) = c
  ELSE 0

RECURSIVE StrLeq(_, _)
StrLeq(a, b) ==
  IF Len(a) = 0 THEN TRUE
  ELSE IF Len(b) = 0 THEN FALSE
  ELSE LET ra == CharRank(SubSeq(a, 1, 1))
           rb == CharRank(SubSeq(b, 1, 1))
       IN IF ra # rb THEN ra < rb
          ELSE StrLeq(SubSeq(a, 2, Len(a)), SubSeq(b, 2, Len(b)))

ValLeq(a, b) == IF a.t = "number" THEN NumLeq(a, b) ELSE StrLeq(a.s, b.s)

NoOrder == ""

\* ORDER BY column ASC | DESC; without ORDER BY any order of the rows is allowed
KeyLeq(a, b, q) ==
  IF q.order = NoOrder THEN TRUE
  ELSE IF q.ascending THEN ValLeq(a[q.order], b[q.order]) ELSE ValLeq(b[q.order], a[q.order])

\* every ordering of the matching rows the ORDER BY allows: rows with equal
\* keys come in an order the store chooses
Orderings(rows, q) ==
  LET n == Len(rows)
  IN { [i \in 1..n |-> rows[p[i]]] :
         p \in { f \in [1..n -> 1..n] :
                   /\ \A i, j \in 1..n : i # j => f[i] # f[j]
                   /\ \A i \in 1..n : \A j \in 1..n :
                        i < j => KeyLeq(rows[f[i]], rows[f[j]], q) } }

Min(a, b) == IF a < b THEN a ELSE b

\* .range(from, to): rows from .. to, counted from 0, both inclusive
ApplyRange(rows, range) ==
  IF range.t = "null" THEN rows
  ELSE SubSeq(rows, range.from + 1, Min(range.to + 1, Len(rows)))

\* the answers of the store to a select on the rows of one table
SelectAnswers(tbl, q) ==
  LET sel == MatchingRows(tbl, q)
  IN IF q.single
     THEN IF Len(sel) = 1 THEN {Answer(sel[1])}
          ELSE {Fail(NoRowsCode, "JSON object requested, multiple (or no) rows returned")}
     ELSE {Answer(Arr(ApplyRange(o, q.range))) : o \in Orderings(sel, q)}

InsertRequest(tbl, rows, single) == [kind |-> "insert", table |-> tbl, rows |-> rows, single |-> single]

UpdateRequest(id, payload) ==
  [kind |-> "update", table |-> "inventory_items", id |-> id, payload |-> payload]

DeleteRequest(id) == [kind |-> "delete", table |-> "inventory_items", id |-> id]

\* a column value as stored: an omitted column takes the column default
Stored(v, default) == IF v.t = "undefined" THEN default ELSE v

\* the row inventory_items holds for an inserted record; id and timestamps
\* are assigned by the store
NewItemRow(rec, k) ==
  ItemObj(Str(ToString(k)), rec.name, rec.sku, rec.quantity, rec.category,
          Stored(rec.low_stock_threshold, Num(DefaultThreshold)),
          Stored(rec.description, Nul), Num(k), Num(k))

CategoryObj(id, name, description, created) ==
  [t |-> "object", id |-> id, name |-> name, description |-> description, created_at |-> created]

NewCategoryRow(rec, k) ==
  CategoryObj(Str(ToString(k)), rec.name, Stored(rec.description, Nul), Num(k))

\* UNIQUE (sku) on inventory_items, UNIQUE (name) on categories
UniqueBroken(existing, rows, col) ==
  \/ \E i \in 1..Len(rows) : \E j \in 1..Len(existing) : rows[i][col] = existing[j][col]
  \/ \E i, j \in 1..Len(rows) : i # j /\ rows[i][col] = rows[j][col]

\* the state of the store is [items, cats, clock]; an outcome of a request is
\* an answer together with the state the store is left in
Outcome(answer, st) == [answer |-> answer, st |-> st]

InsertOutcome(st, req) ==
  LET isItems == req.table = "inventory_items"
      existing == IF isItems THEN st.items ELSE st.cats
      col == IF isItems THEN "sku" ELSE "name"
      n == Len(req.rows)
      rows == [i \in 1..n |-> IF isItems THEN NewItemRow(req.rows[i], st.clock + i)
                              ELSE NewCategoryRow(req.rows[i], Len(st.cats) + i)]
  IN IF UniqueBroken(existing, req.rows, col)
     THEN Outcome(Fail(UniqueViolation,
                       "duplicate key value violates unique constraint"), st)
     ELSE Outcome(Answer(IF req.single THEN rows[1] ELSE Arr(rows)),
                  [items |-> IF isItems THEN st.items \o rows ELSE st.items,
                   cats |-> IF isItems THEN st.cats ELSE st.cats \o rows,
                   clock |-> IF isItems THEN st.clock + n ELSE st.clock])

ItemColumns ==
  <<"id", "name", "sku", "quantity", "category", "low_stock_threshold",
    "description", "created_at", "updated_at">>

\* SET col = value for every key of the payload; the trigger then refreshes
\* updated_at
ApplyPayload(row, payload, now) ==
  LET set == [c \in {ItemColumns[i] : i \in 1..Len(ItemColumns)} |->
                IF payload[c].t = "undefined" THEN row[c] ELSE payload[c]]
  IN ItemObj(set.id, set.name, set.sku, set.quantity, set.category,
             set.low_stock_threshold, set.description, set.created_at, Num(now))

UpdateOutcome(st, req) ==
  LET hit == {i \in 1..Len(st.items) : st.items[i].id = req.id}
  IN IF hit = {}
     THEN Outcome(Fail(NoRowsCode, "JSON object requested, multiple (or no) rows returned"), st)
     ELSE LET i == CHOOSE j \in hit : TRUE
              new == ApplyPayload(st.items[i], req.payload, st.clock)
              others == SelectSeq(st.items, LAMBDA r : r.id # req.id)
          IN IF UniqueBroken(others, <<new>>, "sku") \/ UniqueBroken(others, <<new>>, "id")
             THEN Outcome(Fail(UniqueViolation,
                               "duplicate key value violates unique constraint"), st)
             ELSE Outcome(Answer(new), [st EXCEPT !.items = [st.items EXCEPT ![i] = new]])

DeleteOutcome(st, req) ==
  Outcome(Answer(Nul), [st EXCEPT !.items = SelectSeq(st.items, LAMBDA r : r.id # req.id)])

\* every way the store can deal with one request: it executes it, or it fails
\* without touching the tables
Outcomes(st, req) ==
  ( CASE req.kind = "select" ->
           {Outcome(a, st) :
              a \in SelectAnswers(IF req.table = "inventory_items" THEN st.items ELSE st.cats, req)}
      [] req.kind = "insert" -> {InsertOutcome(st, req)}
      [] req.kind = "update" -> {UpdateOutcome(st, req)}
      [] req.kind = "delete" -> {DeleteOutcome(st, req)} )
  \cup {Outcome(a, st) : a \in FaultAnswers(req)}

\* ------------------------------------------------------------------------
\* lib/database.js: result envelopes
\* ------------------------------------------------------------------------
\* what a call of the query service comes to: a returned object (data or
\* success, and error) or an exception that reaches the caller (exc)
Return(data, error) ==
  [t |-> "result", thrown |-> FALSE, data |-> data, success |-> Undef, subscription |-> Undef,
   error |-> error, exc |-> Undef]

\* {success, error} of deleteInventoryItem
ReturnSuccess(success, error) ==
  [t |-> "result", thrown |-> FALSE, data |-> Undef, success |-> Bool(success), subscription |-> Undef,
   error |-> error, exc |-> Undef]

\* {unsubscribe, subscription, error} of the subscribe functions
ReturnHandle(subscription, error) ==
  [t |-> "result", thrown |-> FALSE, data |-> Undef, success |-> Undef, subscription |-> subscription,
   error |-> error, exc |-> Undef]

Threw(e) ==
  [t |-> "result", thrown |-> TRUE, data |-> Undef, success |-> Undef, subscription |-> Undef,
   error |-> Undef, exc |-> e]

EnvelopeError(message, code, details) ==
  [t |-> "object", message |-> message, code |-> code, details |-> details]

\* err.message of a caught value that is not undefined or null
MessageOf(err) == IF err.t = "error" THEN Str(err.s) ELSE Undef

\* one completed call: its result, the store requests it sent, the answers it
\* got, and the store state it left
Run(result, calls, answers, st) ==
  [result |-> result, calls |-> calls, answers |-> answers, st |-> st]

Map(F(_), seq) == [i \in 1..Len(seq) |-> F(seq[i])]

\* data?.map(transformInventoryItem) || []
TransformRows(data) ==
  IF data.t = "array" THEN Arr(Map(transformInventoryItem, data.items)) ELSE Arr(<<>>)

\* query options {sortBy, ascending, limit, offset}
OptionsObj(sortBy, ascending, limit, offset) ==
  [t |-> "object", sortBy |-> sortBy, ascending |-> ascending, limit |-> limit,
   offset |-> offset]

NoOptions == OptionsObj(Undef, Undef, Undef, Undef)

\* a destructuring default: taken when the property is undefined
Default(v, d) == IF v.t = "undefined" THEN d ELSE v

TypeErrorDestructure(v, prop) ==
  JsError("Cannot destructure property '" \o prop \o "' of 'object' as it is " \o v.t \o ".")

\* ------------------------------------------------------------------------
\* lib/database.js: getAllInventoryItems
\* ------------------------------------------------------------------------
getAllInventoryItemsCatch(err) ==
  IF IsNullish(err) THEN Threw(TypeErrorRead(err, "message"))
  ELSE Return(Nul, EnvelopeError(MessageOf(err), "FETCH_ERROR", err))

\* the code up to the await: the query it builds, or the result when it
\* fails before
getAllInventoryItemsQuery(options) ==
  IF options.t = "null"
  THEN [local |-> TRUE,
        result |-> getAllInventoryItemsCatch(TypeErrorDestructure(options, "sortBy"))]
  ELSE LET o == Default(options, NoOptions)
           sortBy == Default(o.sortBy, Str("created_at"))
           ascending == Default(o.ascending, Bool(FALSE))
           limit == Default(o.limit, Nul)
           offset == Default(o.offset, Num(0))
       IN [local |-> FALSE,
           request |-> SelectQuery("inventory_items", Nul, Nul, Nul, Nul, Nul, sortBy.s,
                         Truthy(ascending),
                         IF Truthy(limit) THEN Range(offset.n, offset.n + limit.n - 1)
                         ELSE NoRange,
                         FALSE)]

\* the code after the await
getAllInventoryItemsResume(answer) ==
  IF answer.rejected THEN getAllInventoryItemsCatch(answer.value)
  ELSE IF Truthy(answer.error)
       THEN getAllInventoryItemsCatch(
              JsError("Failed to fetch inventory items: " \o answer.error.message))
  ELSE Return(TransformRows(answer.data), Nul)

getAllInventoryItems(options, st) ==
  LET c == getAllInventoryItemsQuery(options)
  IN IF c.local THEN {Run(c.result, <<>>, <<>>, st)}
     ELSE {Run(getAllInventoryItemsResume(o.answer), <<c.request>>, <<o.answer>>, o.st) :
             o \in Outcomes(st, c.request)}

\* ------------------------------------------------------------------------
\* lib/database.js: getInventoryItemById
\* ------------------------------------------------------------------------
getInventoryItemByIdCatch(err) ==
  IF IsNullish(err) THEN Threw(TypeErrorRead(err, "message"))
  ELSE Return(Nul, EnvelopeError(MessageOf(err),
                IF MessageOf(err) = Str("Item not found") THEN "NOT_FOUND" ELSE "FETCH_ERROR",
                err))

getInventoryItemByIdResume(answer) ==
  IF answer.rejected THEN getInventoryItemByIdCatch(answer.value)
  ELSE IF Truthy(answer.error)
       THEN IF answer.error.code = NoRowsCode
            THEN getInventoryItemByIdCatch(JsError("Item not found"))
            ELSE getInventoryItemByIdCatch(
                   JsError("Failed to fetch item: " \o answer.error.message))
  ELSE Return(transformInventoryItem(answer.data), Nul)

\* a lookup that sends whatever id it is given
getInventoryItemByIdUnchecked(id, st) ==
  LET q == SelectQuery("inventory_items", Nul, Nul, id, Nul, Nul, NoOrder,
                       TRUE, NoRange, TRUE)
  IN {Run(getInventoryItemByIdResume(o.answer), <<q>>, <<o.answer>>, o.st) : o \in Outcomes(st, q)}

getInventoryItemById(id, st) ==
  IF ~Truthy(id) THEN {Run(getInventoryItemByIdCatch(JsError("Item ID is required")), <<>>, <<>>, st)}
  ELSE LET q == SelectQuery("inventory_items", Nul, Nul, id, Nul, Nul, NoOrder,
                            TRUE, NoRange, TRUE)
       IN {Run(getInventoryItemByIdResume(o.answer), <<q>>, <<o.answer>>, o.st) : o \in Outcomes(st, q)}

\* ------------------------------------------------------------------------
\* lib/database.js: createInventoryItem
\* ------------------------------------------------------------------------
\* v?.trim(): undefined for undefined and null, the trimmed string for a
\* string, a TypeError for any other value
OptionalTrim(v, path) ==
  IF IsNullish(v) THEN [thrown |-> FALSE, value |-> Undef]
  ELSE IF v.t = "string" THEN [thrown |-> FALSE, value |-> Str(Trim(v.s))]
  ELSE [thrown |-> TRUE, err |-> TypeErrorTrim(path)]

\* a message naming the first field error only
ValidationMessageFirst(prefix, validation) == prefix \o validation.errors[1].msg

ValidationMessage(prefix, validation) == prefix \o Join(ErrorValues(validation.errors))

\* the record createInventoryItem and createMultipleInventoryItems build for
\* the insert from a validated item
\* the record built from the fields as they were given, untrimmed
itemToInsertUntrimmed(item, description) ==
  Candidate(item.name, item.sku, item.quantity, item.category,
            OrElse(item.low_stock_threshold, Num(DefaultThreshold)),
            OrElse(description, Str("")))

itemToInsert(item, description) ==
  Candidate(Str(Trim(item.name.s)), Str(Trim(item.sku.s)), item.quantity,
            Str(Trim(item.category.s)),
            OrElse(item.low_stock_threshold, Num(DefaultThreshold)),
            OrElse(description, Str("")))

createInventoryItemCatch(err) ==
  IF IsNullish(err) THEN Threw(TypeErrorRead(err, "message"))
  ELSE IF MessageOf(err).t # "string" THEN Threw(TypeErrorRead(MessageOf(err), "includes"))
  ELSE Return(Nul, EnvelopeError(MessageOf(err),
                IF Includes(MessageOf(err).s, "SKU already exists") THEN "DUPLICATE_SKU"
                ELSE "CREATE_ERROR",
                err))

createInventoryItemRequest(item) ==
  LET validation == validateInventoryItem(item)
  IN IF validation.thrown THEN [local |-> TRUE, result |-> createInventoryItemCatch(validation.err)]
     ELSE IF ~validation.isValid
          THEN [local |-> TRUE,
                result |-> createInventoryItemCatch(
                             JsError(ValidationMessage("Validation failed: ", validation)))]
     ELSE LET d == OptionalTrim(item.description, "item.description")
          IN IF d.thrown THEN [local |-> TRUE, result |-> createInventoryItemCatch(d.err)]
             ELSE [local |-> FALSE,
                   request |-> InsertRequest("inventory_items",
                                             <<itemToInsert(item, d.value)>>, TRUE)]

createInventoryItemResume(answer) ==
  IF answer.rejected THEN createInventoryItemCatch(answer.value)
  ELSE IF Truthy(answer.error)
       THEN IF answer.error.code = UniqueViolation
            THEN createInventoryItemCatch(
                   JsError("SKU already exists. Please use a unique SKU."))
            ELSE createInventoryItemCatch(
                   JsError("Failed to create item: " \o answer.error.message))
  ELSE Return(transformInventoryItem(answer.data), Nul)

createInventoryItem(item, st) ==
  LET c == createInventoryItemRequest(item)
  IN IF c.local THEN {Run(c.result, <<>>, <<>>, st)}
     ELSE {Run(createInventoryItemResume(o.answer), <<c.request>>, <<o.answer>>, o.st) :
             o \in Outcomes(st, c.request)}

\* ------------------------------------------------------------------------
\* lib/database.js: updateInventoryItem
\* ------------------------------------------------------------------------
updateInventoryItemCatch(err) ==
  IF IsNullish(err) THEN Threw(TypeErrorRead(err, "message"))
  ELSE IF MessageOf(err) = Str("Item not found")
       THEN Return(Nul, EnvelopeError(MessageOf(err), "NOT_FOUND", err))
  ELSE IF MessageOf(err).t # "string" THEN Threw(TypeErrorRead(MessageOf(err), "includes"))
  ELSE Return(Nul, EnvelopeError(MessageOf(err),
                IF Includes(MessageOf(err).s, "SKU already exists") THEN "DUPLICATE_SKU"
                ELSE "UPDATE_ERROR",
                err))

\* {...updates, name, sku, category, description} of a validated payload,
\* with the keys whose value is undefined removed
updatesToApply(updates, description) ==
  ItemObj(updates.id, Str(Trim(updates.name.s)), Str(Trim(updates.sku.s)), updates.quantity,
          Str(Trim(updates.category.s)), updates.low_stock_threshold,
          OrElse(description, Str("")), updates.created_at, updates.updated_at)

updateInventoryItemRequest(id, updates) ==
  IF ~Truthy(id)
  THEN [local |-> TRUE, result |-> updateInventoryItemCatch(JsError("Item ID is required"))]
  ELSE LET validation == validateInventoryItem(updates)
       IN IF validation.thrown
          THEN [local |-> TRUE, result |-> updateInventoryItemCatch(validation.err)]
          ELSE IF ~validation.isValid
               THEN [local |-> TRUE,
                     result |-> updateInventoryItemCatch(
                                  JsError(ValidationMessage("Validation failed: ", validation)))]
          ELSE LET d == OptionalTrim(updates.description, "updates.description")
               IN IF d.thrown
                  THEN [local |-> TRUE, result |-> updateInventoryItemCatch(d.err)]
                  ELSE [local |-> FALSE,
                        request |-> UpdateRequest(id, updatesToApply(updates, d.value))]

updateInventoryItemResume(answer) ==
  IF answer.rejected THEN updateInventoryItemCatch(answer.value)
  ELSE IF Truthy(answer.error)
       THEN IF answer.error.code = NoRowsCode
            THEN updateInventoryItemCatch(JsError("Item not found"))
            ELSE IF answer.error.code = UniqueViolation
                 THEN updateInventoryItemCatch(
                        JsError("SKU already exists. Please use a unique SKU."))
            ELSE updateInventoryItemCatch(
                   JsError("Failed to update item: " \o answer.error.message))
  ELSE Return(transformInventoryItem(answer.data), Nul)

updateInventoryItem(id, updates, st) ==
  LET c == updateInventoryItemRequest(id, updates)
  IN IF c.local THEN {Run(c.result, <<>>, <<>>, st)}
     ELSE {Run(updateInventoryItemResume(o.answer), <<c.request>>, <<o.answer>>, o.st) :
             o \in Outcomes(st, c.request)}

\* ------------------------------------------------------------------------
\* lib/database.js: deleteInventoryItem
\* ------------------------------------------------------------------------
deleteInventoryItemCatch(err) ==
  IF IsNullish(err) THEN Threw(TypeErrorRead(err, "message"))
  ELSE ReturnSuccess(FALSE, EnvelopeError(MessageOf(err), "DELETE_ERROR", err))

deleteInventoryItemResume(answer) ==
  IF answer.rejected THEN deleteInventoryItemCatch(answer.value)
  ELSE IF Truthy(answer.error)
       THEN deleteInventoryItemCatch(JsError("Failed to delete item: " \o answer.error.message))
  ELSE ReturnSuccess(TRUE, Nul)

deleteInventoryItem(id, st) ==
  IF ~Truthy(id) THEN {Run(deleteInventoryItemCatch(JsError("Item ID is required")), <<>>, <<>>, st)}
  ELSE {Run(deleteInventoryItemResume(o.answer), <<DeleteRequest(id)>>, <<o.answer>>, o.st) :
          o \in Outcomes(st, DeleteRequest(id))}

\* ------------------------------------------------------------------------
\* lib/database.js: searchAndFilterInventoryItems, getLowStockItems
\* ------------------------------------------------------------------------
FiltersObj(search, category, lowStockOnly, minQuantity, maxQuantity) ==
  [t |-> "object", search |-> search, category |-> category, lowStockOnly |-> lowStockOnly,
   minQuantity |-> minQuantity, maxQuantity |-> maxQuantity]

NoFilters == FiltersObj(Undef, Undef, Undef, Undef, Undef)

\* slice taking the element at index to as well
SliceInclusive(seq, from, to) == SubSeq(seq, from + 1, Min(to + 1, Len(seq)))

\* Array.prototype.slice(from, to) for 0 <= from <= to
Slice(seq, from, to) == SubSeq(seq, from + 1, Min(to, Len(seq)))

\* .filter(item => item.quantity <= item.low_stock_threshold)
LowStockFilter(seq) ==
  SelectSeq(seq, LAMBDA item : NumLeq(item.quantity, item.low_stock_threshold))

\* the slice both low-stock paths apply after filtering
Paginate(seq, limit, offset) ==
  IF Truthy(limit) THEN Slice(seq, offset.n, offset.n + limit.n) ELSE seq

\* a range sent whenever a limit is given
searchRangeAlways(lowStockOnly, limit, offset) ==
  IF Truthy(limit) THEN Range(offset.n, offset.n + limit.n - 1) ELSE NoRange

\* the range the search sends to the store: none when the low-stock filter
\* is to be applied first
searchRange(lowStockOnly, limit, offset) ==
  IF ~Truthy(lowStockOnly) /\ Truthy(limit)
  THEN Range(offset.n, offset.n + limit.n - 1) ELSE NoRange

\* a catch block that answers a failed search with an empty list
searchCatchEmptyList(err) ==
  IF IsNullish(err) THEN Threw(TypeErrorRead(err, "message"))
  ELSE Return(Arr(<<>>), EnvelopeError(MessageOf(err), "SEARCH_ERROR", err))

searchCatch(err) ==
  IF IsNullish(err) THEN Threw(TypeErrorRead(err, "message"))
  ELSE Return(Nul, EnvelopeError(MessageOf(err), "SEARCH_ERROR", err))

searchAndFilterQuery(filters, options) ==
  IF filters.t = "null"
  THEN [local |-> TRUE, result |-> searchCatch(TypeErrorDestructure(filters, "search"))]
  ELSE IF options.t = "null"
       THEN [local |-> TRUE, result |-> searchCatch(TypeErrorDestructure(options, "sortBy"))]
  ELSE LET f == Default(filters, NoFilters)
           o == Default(options, NoOptions)
           search == Default(f.search, Str(""))
           category == Default(f.category, Nul)
           lowStockOnly == Default(f.lowStockOnly, Bool(FALSE))
           minQuantity == Default(f.minQuantity, Nul)
           maxQuantity == Default(f.maxQuantity, Nul)
           sortBy == Default(o.sortBy, Str("created_at"))
           ascending == Default(o.ascending, Bool(FALSE))
           limit == Default(o.limit, Nul)
           offset == Default(o.offset, Num(0))
       IN IF Truthy(search) /\ search.t # "string"
          THEN [local |-> TRUE, result |-> searchCatch(TypeErrorTrim("search"))]
          ELSE [local |-> FALSE,
                lowStockOnly |-> Truthy(lowStockOnly), limit |-> limit, offset |-> offset,
                request |->
                  SelectQuery("inventory_items",
                    IF Truthy(search) /\ Truthy(Str(Trim(search.s)))
                    THEN Str(Trim(search.s)) ELSE Nul,
                    IF Truthy(category) THEN category ELSE Nul,
                    Nul, minQuantity, maxQuantity, sortBy.s, Truthy(ascending),
                    searchRange(lowStockOnly, limit, offset), FALSE)]

searchAndFilterResume(c, answer) ==
  IF answer.rejected THEN searchCatch(answer.value)
  ELSE IF Truthy(answer.error)
       THEN searchCatch(JsError("Search failed: " \o answer.error.message))
  ELSE IF c.lowStockOnly
       THEN Return(Arr(Paginate(LowStockFilter(TransformRows(answer.data).items),
                                c.limit, c.offset)), Nul)
  ELSE Return(TransformRows(answer.data), Nul)

searchAndFilterInventoryItems(filters, options, st) ==
  LET c == searchAndFilterQuery(filters, options)
  IN IF c.local THEN {Run(c.result, <<>>, <<>>, st)}
     ELSE {Run(searchAndFilterResume(c, o.answer), <<c.request>>, <<o.answer>>, o.st) :
             o \in Outcomes(st, c.request)}

\* the rest of getLowStockItems once its call of getAllInventoryItems is over
getLowStockItemsResume(inner, limit, offset) ==
  IF inner.thrown THEN searchCatch(inner.exc)
  ELSE IF Truthy(inner.error)
       THEN searchCatch(JsError("Failed to fetch items for low stock filter: "
                                \o TemplateText(inner.error.message)))
  ELSE Return(Arr(Paginate(LowStockFilter(inner.data.items), limit, offset)), Nul)

\* the caller's limit and offset handed on to the fetch
lowStockFetchOptionsPaged(sortBy, ascending, limit, offset) ==
  OptionsObj(sortBy, ascending, limit, offset)

\* the options getLowStockItems hands to getAllInventoryItems
lowStockFetchOptions(sortBy, ascending, limit, offset) ==
  OptionsObj(sortBy, ascending, Nul, Num(0))

getLowStockItems(options, st) ==
  IF options.t = "null"
  THEN {Run(searchCatch(TypeErrorDestructure(options, "sortBy")), <<>>, <<>>, st)}
  ELSE LET o == Default(options, NoOptions)
           sortBy == Default(o.sortBy, Str("quantity"))
           ascending == Default(o.ascending, Bool(TRUE))
           limit == Default(o.limit, Nul)
           offset == Default(o.offset, Num(0))
       IN {Run(getLowStockItemsResume(r.result, limit, offset), r.calls, r.answers, r.st) :
             r \in getAllInventoryItems(lowStockFetchOptions(sortBy, ascending, limit, offset), st)}

\* ------------------------------------------------------------------------
\* lib/types.js: validateCategory; lib/database.js: categories
\* ------------------------------------------------------------------------
MaxCategoryNameLen == 100

validateCategory(category) ==
  IF IsNullish(category) THEN [thrown |-> TRUE, err |-> TypeErrorRead(category, "name")]
  ELSE LET cn == CheckStringField(category.name, "name", "category.name", MaxCategoryNameLen,
                   "Name is required", "Name must be less than 100 characters")
       IN IF cn.thrown THEN [thrown |-> TRUE, err |-> cn.err]
          ELSE [thrown |-> FALSE, isValid |-> Len(cn.errs) = 0, errors |-> cn.errs]

getAllCategoriesCatch(err) ==
  IF IsNullish(err) THEN Threw(TypeErrorRead(err, "message"))
  ELSE Return(Nul, EnvelopeError(MessageOf(err), "FETCH_ERROR", err))

getAllCategoriesResume(answer) ==
  IF answer.rejected THEN getAllCategoriesCatch(answer.value)
  ELSE IF Truthy(answer.error)
       THEN getAllCategoriesCatch(
              JsError("Failed to fetch categories: " \o answer.error.message))
  ELSE Return(OrElse(answer.data, Arr(<<>>)), Nul)

getAllCategories(st) ==
  LET q == SelectQuery("categories", Nul, Nul, Nul, Nul, Nul, "name", TRUE, NoRange, FALSE)
  IN {Run(getAllCategoriesResume(o.answer), <<q>>, <<o.answer>>, o.st) : o \in Outcomes(st, q)}

createCategoryCatch(err) ==
  IF IsNullish(err) THEN Threw(TypeErrorRead(err, "message"))
  ELSE IF MessageOf(err).t # "string" THEN Threw(TypeErrorRead(MessageOf(err), "includes"))
  ELSE Return(Nul, EnvelopeError(MessageOf(err),
                IF Includes(MessageOf(err).s, "already exists") THEN "DUPLICATE_NAME"
                ELSE "CREATE_ERROR",
                err))

createCategoryRequest(category) ==
  LET validation == validateCategory(category)
  IN IF validation.thrown THEN [local |-> TRUE, result |-> createCategoryCatch(validation.err)]
     ELSE IF ~validation.isValid
          THEN [local |-> TRUE,
                result |-> createCategoryCatch(
                             JsError(ValidationMessage("Validation failed: ", validation)))]
     ELSE LET d == OptionalTrim(category.description, "category.description")
          IN IF d.thrown THEN [local |-> TRUE, result |-> createCategoryCatch(d.err)]
             ELSE [local |-> FALSE,
                   request |-> InsertRequest("categories",
                                 <<CategoryObj(Undef, Str(Trim(category.name.s)),
                                               OrElse(d.value, Str("")), Undef)>>, TRUE)]

createCategoryResume(answer) ==
  IF answer.rejected THEN createCategoryCatch(answer.value)
  ELSE IF Truthy(answer.error)
       THEN IF answer.error.code = UniqueViolation
            THEN createCategoryCatch(
                   JsError("Category name already exists. Please use a unique name."))
            ELSE createCategoryCatch(
                   JsError("Failed to create category: " \o answer.error.message))
  ELSE Return(answer.data, Nul)

createCategory(category, st) ==
  LET c == createCategoryRequest(category)
  IN IF c.local THEN {Run(c.result, <<>>, <<>>, st)}
     ELSE {Run(createCategoryResume(o.answer), <<c.request>>, <<o.answer>>, o.st) :
             o \in Outcomes(st, c.request)}

\* ------------------------------------------------------------------------
\* lib/database.js: createMultipleInventoryItems
\* ------------------------------------------------------------------------
createMultipleCatch(err) ==
  IF IsNullish(err) THEN Threw(TypeErrorRead(err, "message"))
  ELSE IF MessageOf(err).t # "string" THEN Threw(TypeErrorRead(MessageOf(err), "includes"))
  ELSE Return(Nul, EnvelopeError(MessageOf(err),
                IF Includes(MessageOf(err).s, "SKUs already exist") THEN "DUPLICATE_SKU"
                ELSE "BATCH_CREATE_ERROR",
                err))

\* the validation loop from item i on: the first error it throws, or none
RECURSIVE ValidateAll(_, _)
ValidateAll(items, i) ==
  IF i > Len(items) THEN [thrown |-> FALSE]
  ELSE LET validation == validateInventoryItem(items[i])
       IN IF validation.thrown THEN [thrown |-> TRUE, err |-> validation.err]
          ELSE IF ~validation.isValid
               THEN [thrown |-> TRUE,
                     err |-> JsError(ValidationMessage(
                               "Item " \o ToString(i) \o " validation failed: ", validation))]
          ELSE ValidateAll(items, i + 1)

\* items.map(...) from item i on: the records, or the first error thrown
RECURSIVE itemsToInsert(_, _)
itemsToInsert(items, i) ==
  IF i > Len(items) THEN [thrown |-> FALSE, rows |-> <<>>]
  ELSE LET d == OptionalTrim(items[i].description, "item.description")
       IN IF d.thrown THEN [thrown |-> TRUE, err |-> d.err]
          ELSE LET rest == itemsToInsert(items, i + 1)
               IN IF rest.thrown THEN rest
                  ELSE [thrown |-> FALSE,
                        rows |-> <<itemToInsert(items[i], d.value)>> \o rest.rows]

\* a batch create that validates and sends whatever array it is given
createMultipleRequestAnyArray(items) ==
  IF items.t # "array"
  THEN [local |-> TRUE,
        result |-> createMultipleCatch(
                     JsError("Items array is required and must not be empty"))]
  ELSE LET v == ValidateAll(items.items, 1)
       IN IF v.thrown THEN [local |-> TRUE, result |-> createMultipleCatch(v.err)]
          ELSE [local |-> FALSE,
                request |-> InsertRequest("inventory_items",
                                          itemsToInsert(items.items, 1).rows, FALSE)]

createMultipleRequest(items) ==
  IF items.t # "array" \/ Len(items.items) = 0
  THEN [local |-> TRUE,
        result |-> createMultipleCatch(
                     JsError("Items array is required and must not be empty"))]
  ELSE LET v == ValidateAll(items.items, 1)
       IN IF v.thrown THEN [local |-> TRUE, result |-> createMultipleCatch(v.err)]
          ELSE LET m == itemsToInsert(items.items, 1)
               IN IF m.thrown THEN [local |-> TRUE, result |-> createMultipleCatch(m.err)]
                  ELSE [local |-> FALSE,
                        request |-> InsertRequest("inventory_items", m.rows, FALSE)]

createMultipleResume(answer) ==
  IF answer.rejected THEN createMultipleCatch(answer.value)
  ELSE IF Truthy(answer.error)
       THEN IF answer.error.code = UniqueViolation
            THEN createMultipleCatch(JsError(
                   "One or more SKUs already exist. Please ensure all SKUs are unique."))
            ELSE createMultipleCatch(
                   JsError("Failed to create items: " \o answer.error.message))
  ELSE Return(TransformRows(answer.data), Nul)

createMultipleInventoryItems(items, st) ==
  LET c == createMultipleRequest(items)
  IN IF c.local THEN {Run(c.result, <<>>, <<>>, st)}
     ELSE {Run(createMultipleResume(o.answer), <<c.request>>, <<o.answer>>, o.st) :
             o \in Outcomes(st, c.request)}

\* ------------------------------------------------------------------------
\* lib/database.js: getInventoryStatistics
\* ------------------------------------------------------------------------
RECURSIVE SumQuantity(_)
SumQuantity(items) ==
  IF Len(items) = 0 THEN 0 ELSE items[1].quantity.n + SumQuantity(Tail(items))

\* the division with the fraction dropped
RoundDivDown(a, b) == a \div b

\* Math.round(a / b) for a >= 0 and b > 0: the nearest integer, a half goes up
RoundDiv(a, b) == (2 * a + b) \div (2 * b)

StatsObj(items) ==
  [t |-> "object",
   totalItems |-> Len(items),
   totalQuantity |-> SumQuantity(items),
   lowStockItems |-> Len(LowStockFilter(items)),
   categories |-> Cardinality({items[i].category : i \in 1..Len(items)}),
   averageQuantity |-> IF Len(items) > 0 THEN RoundDiv(SumQuantity(items), Len(items)) ELSE 0]

statsCatch(err) ==
  IF IsNullish(err) THEN Threw(TypeErrorRead(err, "message"))
  ELSE Return(Nul, EnvelopeError(MessageOf(err), "STATS_ERROR", err))

getInventoryStatisticsResume(inner) ==
  IF inner.thrown THEN statsCatch(inner.exc)
  ELSE IF Truthy(inner.error)
       THEN statsCatch(JsError("Failed to fetch statistics: "
                               \o TemplateText(inner.error.message)))
  ELSE Return(StatsObj(inner.data.items), Nul)

getInventoryStatistics(st) ==
  {Run(getInventoryStatisticsResume(r.result), r.calls, r.answers, r.st) :
     r \in getAllInventoryItems(Undef, st)}

\* ------------------------------------------------------------------------
\* lib/database.js: subscribeToInventoryItems, subscribeToCategories
\* ------------------------------------------------------------------------
\* a registered change-feed channel; handler tells whether the function
\* handed to the store is the wrapper around the callback or the callback
Channel(name, tbl, events, handler, callback) ==
  [t |-> "channel", name |-> name, table |-> tbl, events |-> events,
   handler |-> handler, callback |-> callback]

\* subscription options {events, filter}
SubOptionsObj(events, filter) == [t |-> "object", events |-> events, filter |-> filter]

NoSubOptions == SubOptionsObj(Undef, Undef)

\* setup is what supabase.channel(...).on(...).subscribe() does: "ok", or the
\* value it throws
subscribeToInventoryItems(callback, options, setup) ==
  IF options.t = "null"
  THEN ReturnHandle(Nul, TypeErrorDestructure(options, "events"))
  ELSE IF setup.t # "ok" THEN ReturnHandle(Nul, setup)
  ELSE ReturnHandle(Channel("inventory_items_changes", "inventory_items",
                            Default(Default(options, NoSubOptions).events, Str("*")),
                            "wrapped", callback), Undef)

subscribeToCategories(callback, options, setup) ==
  IF options.t = "null"
  THEN ReturnHandle(Nul, TypeErrorDestructure(options, "events"))
  ELSE IF setup.t # "ok" THEN ReturnHandle(Nul, setup)
  ELSE ReturnHandle(Channel("categories_changes", "categories",
                            Default(Default(options, NoSubOptions).events, Str("*")),
                            "direct", callback), Undef)

\* a change event of the store's feed: the kind of change and the snapshots
\* of the row after and before it
ChangePayload(eventType, new, old) ==
  [t |-> "object", eventType |-> eventType, new |-> new, old |-> old]

\* what the call of a handler by the store's delivery loop comes to: the
\* payload the callback was called with, the exception that reached the loop
\* (undefined when none did) and whether console.error was called
Delivered(seen, exc, logged) ==
  [t |-> "result", thrown |-> exc # Undef, exc |-> exc, seen |-> seen, logged |-> logged]

\* what a callback that throws throws
CallbackError == JsError("callback failed")

\* calling the registered function itself: nothing is between the callback
\* and the loop
directHandler(callback, payload) ==
  Delivered(payload, IF callback = "throws" THEN CallbackError ELSE Undef, FALSE)

\* the arrow function subscribeToInventoryItems hands to .on()
wrappedHandler(callback, payload) ==
  LET new == IF Truthy(payload.new) THEN transformInventoryItem(payload.new)
             ELSE payload.new
      old == IF Truthy(payload.old) THEN transformInventoryItem(payload.old)
             ELSE payload.old
  IN Delivered(ChangePayload(payload.eventType, new, old), Undef, callback = "throws")

\* the function a channel has registered, called with a payload
registeredHandler(ch, payload) ==
  IF ch.handler = "wrapped" THEN wrappedHandler(ch.callback, payload)
  ELSE directHandler(ch.callback, payload)

\* ------------------------------------------------------------------------
\* lib/database.js: updateMultipleInventoryItems
\* ------------------------------------------------------------------------
\* one element {id, updates} of the array
UpdateEntry(id, updates) == [t |-> "object", id |-> id, updates |-> updates]

batchUpdateCatch(err) ==
  IF IsNullish(err) THEN Threw(TypeErrorRead(err, "message"))
  ELSE Return(Nul, EnvelopeError(MessageOf(err), "BATCH_UPDATE_ERROR", err))

\* errors.push({index, id, error}); index is the 0-based position in the array
BatchFailure(i, id, error) == [t |-> "object", index |-> i - 1, id |-> id, error |-> error]

\* the code after the loop
batchUpdateReturn(updates, results, errors) ==
  IF Len(errors) > 0
  THEN Return(Arr(results),
              EnvelopeError(Str(ToString(Len(errors)) \o " out of " \o ToString(Len(updates))
                                \o " updates failed"),
                            "BATCH_UPDATE_PARTIAL_ERROR", Arr(errors)))
  ELSE Return(Arr(results), Nul)

\* all remaining updates started together
EntriesSentTogether(updates, i) == i..Len(updates)

\* the entries whose store request is issued when the loop reaches entry i
EntriesSentAt(updates, i) == {i}

\* the loop from entry i (1-based) on, run until it awaits the store or is
\* over: an entry that updateInventoryItem settles without the store is
\* recorded and the loop goes on
RECURSIVE batchUpdateLoop(_, _, _, _)
batchUpdateLoop(updates, i, results, errors) ==
  IF i > Len(updates)
  THEN [done |-> TRUE, result |-> batchUpdateReturn(updates, results, errors)]
  ELSE IF IsNullish(updates[i])
       THEN [done |-> TRUE,
             result |-> batchUpdateCatch(TypeErrorDestructure(updates[i], "id"))]
  ELSE LET c == updateInventoryItemRequest(updates[i].id, updates[i].updates)
       IN IF ~c.local
          THEN [done |-> FALSE, i |-> i, results |-> results, errors |-> errors,
                request |-> c.request]
          ELSE IF c.result.thrown
               THEN [done |-> TRUE, result |-> batchUpdateCatch(c.result.exc)]
          ELSE IF Truthy(c.result.error)
               THEN batchUpdateLoop(updates, i + 1, results,
                      Append(errors, BatchFailure(i, updates[i].id, c.result.error)))
          ELSE batchUpdateLoop(updates, i + 1, Append(results, c.result.data), errors)

\* the loop resumed with the result of the awaited updateInventoryItem
batchUpdateResume(updates, i, results, errors, r) ==
  IF r.thrown THEN [done |-> TRUE, result |-> batchUpdateCatch(r.exc)]
  ELSE IF Truthy(r.error)
       THEN batchUpdateLoop(updates, i + 1, results,
              Append(errors, BatchFailure(i, updates[i].id, r.error)))
  ELSE batchUpdateLoop(updates, i + 1, Append(results, r.data), errors)

\* ------------------------------------------------------------------------
\* Bounds and the inputs the calls are made with
\* ------------------------------------------------------------------------
\* ids and timestamps the store hands out
MaxClock == 2

\* longest array given to the batch operations
MaxBatch == 2

\* largest limit and offset of a query
MaxLimit == 2

\* largest quantity and threshold given to the pure functions of lib/types.js
MaxQuantity == 10

ValidA == Candidate(Str("Widget"), Str("W-1"), Num(5), Str("Tools"), Undef, Undef)

ValidB == Candidate(Str("  Gadget "), Str(" G-2 "), Num(0), Str("Tools"), Num(0), Str(" d "))

ValidC == Candidate(Str("Bolt"), Str("W-1"), Num(12), Str("Parts"), Num(3), Nul)

FourErrors == Candidate(Str(""), Str(""), Num(-1), Str(""), Undef, Undef)

QuantityOnly(q) == Candidate(Undef, Undef, Num(q), Undef, Undef, Undef)

BadNumbers == Candidate(Str("Test"), Str("T-1"), Half(10), Str("Cat"), Num(-1), Undef)

NumericName == Candidate(Num(5), Str("N-1"), Num(1), Str("Cat"), Undef, Undef)

ItemInputs == {ValidA, ValidB, ValidC, FourErrors, QuantityOnly(5), BadNumbers, NumericName, Nul}

BatchItemInputs == {ValidA, ValidB, ValidC, FourErrors, Nul}

IdInputs == {Str("1"), Str("2"), Str("bad-id"), Str(""), Undef}

\* an item as the layer returned it, edited and handed back without its
\* description: it carries the id and created_at of the first row
EditedItem ==
  ItemObj(Str("1"), Str("Gadget"), Str("G-2"), Num(3), Str("Tools"), Num(0), Undef,
          Num(1), Undef)

UpdateInputs == {ValidB, EditedItem, QuantityOnly(5), FourErrors, Nul}

EntryInputs ==
  { UpdateEntry(Str("1"), QuantityOnly(5)), UpdateEntry(Str("bad-id"), QuantityOnly(10)),
    UpdateEntry(Str("1"), ValidB), UpdateEntry(Str("2"), EditedItem),
    UpdateEntry(Str("bad-id"), ValidB), UpdateEntry(Undef, ValidB), Nul }

SeqsUpTo(S, n) == UNION {[1..k -> S] : k \in 0..n}

CategoryInputs ==
  { [t |-> "object", name |-> Str(" Tools "), description |-> Str(" hand tools ")],
    [t |-> "object", name |-> Str("  "), description |-> Nul],
    [t |-> "object", name |-> Num(7), description |-> Undef],
    Nul }

OptionsInputs ==
  {Undef, Nul} \cup
  { OptionsObj(sort[1], sort[2], limit, offset) :
      sort \in {<<Undef, Undef>>, <<Str("name"), Bool(TRUE)>>},
      limit \in {Undef} \cup {Num(k) : k \in 0..MaxLimit},
      offset \in {Undef, Num(1), Num(MaxLimit)} }

FiltersInputs ==
  { Nul,
    FiltersObj(Str(" wid "), Undef, Undef, Undef, Undef),
    FiltersObj(Undef, Undef, Bool(TRUE), Undef, Undef),
    FiltersObj(Str("-"), Str("Tools"), Bool(TRUE), Undef, Undef),
    FiltersObj(Str("  "), Nul, Bool(TRUE), Num(0), Num(10)),
    FiltersObj(Num(3), Undef, Undef, Undef, Undef) }

CallbackInputs == {"returns", "throws"}

SubOptionsInputs == {Undef, Nul, SubOptionsObj(Str("INSERT"), Nul)}

SetupInputs == {[t |-> "ok"], JsError("channel setup failed"), Undef}

\* items with integer quantity and threshold, for the low-stock predicate
StockItems ==
  { ItemObj(Str("7"), Str("Item"), Str("I-7"), Num(q), Str("Cat"), Num(th), Str(""),
            Num(1), Num(1)) : q \in -1..MaxQuantity, th \in -1..MaxQuantity }

\* a row written to inventory_items by another client of the store, with the
\* nullable columns null
SeedRow ==
  ItemObj(Str("1"), Str("Laptop Computer"), Str("LAP-1"), Num(10), Str("Electronics"),
          Nul, Nul, Num(1), Num(1))

\* ------------------------------------------------------------------------
\* State
\* ------------------------------------------------------------------------
VARIABLES
  items,      \* the rows of inventory_items, in insertion order
  cats,       \* the rows of categories
  clock,      \* the last id and timestamp the store assigned
  channels,   \* the change-feed channels registered with the store
  op,         \* the call made last: its name and arguments
  result,     \* what that call came to; Undef while it is suspended
  calls,      \* the store requests that call has sent, in order
  answers,    \* the answers it has received to them, in order
  batch       \* the position of a suspended updateMultipleInventoryItems

vars == <<items, cats, clock, channels, op, result, calls, answers, batch>>

Store == [items |-> items, cats |-> cats, clock |-> clock]

\* sent: the entries (1-based) whose store request has been sent, in the order
\* of sending; answered: those whose answer has come back
NoBatch ==
  [active |-> FALSE, updates |-> <<>>, i |-> 0, results |-> <<>>, errors |-> <<>>,
   sent |-> <<>>, answered |-> {}]

Call(name, args) == [name |-> name, args |-> args]

Init ==
  /\ \/ items = <<>> /\ clock = 0
     \/ items = <<SeedRow>> /\ clock = 1
  /\ cats = <<>>
  /\ channels = {}
  /\ op = Call("none", <<>>)
  /\ result = Undef
  /\ calls = <<>>
  /\ answers = <<>>
  /\ batch = NoBatch

\* the caller is between two calls
Idle == op.name = "none"

\* a call that runs to its end: the store is left as the run leaves it
Finish(name, args, run) ==
  /\ Idle
  /\ run.st.clock <= MaxClock
  /\ op' = Call(name, args)
  /\ result' = run.result
  /\ calls' = run.calls
  /\ answers' = run.answers
  /\ items' = run.st.items
  /\ cats' = run.st.cats
  /\ clock' = run.st.clock
  /\ batch' = NoBatch
  /\ UNCHANGED channels

GetAllInventoryItems ==
  /\ Idle
  /\ \E options \in OptionsInputs : \E run \in getAllInventoryItems(options, Store) :
       Finish("getAllInventoryItems", <<options>>, run)

GetInventoryItemById ==
  /\ Idle
  /\ \E id \in IdInputs : \E run \in getInventoryItemById(id, Store) :
       Finish("getInventoryItemById", <<id>>, run)

CreateInventoryItem ==
  /\ Idle
  /\ \E item \in ItemInputs : \E run \in createInventoryItem(item, Store) :
       Finish("createInventoryItem", <<item>>, run)

UpdateInventoryItem ==
  /\ Idle
  /\ \E id \in IdInputs : \E updates \in UpdateInputs :
       \E run \in updateInventoryItem(id, updates, Store) :
         Finish("updateInventoryItem", <<id, updates>>, run)

DeleteInventoryItem ==
  /\ Idle
  /\ \E id \in IdInputs : \E run \in deleteInventoryItem(id, Store) :
       Finish("deleteInventoryItem", <<id>>, run)

SearchAndFilterInventoryItems ==
  /\ Idle
  /\ \E filters \in FiltersInputs : \E options \in OptionsInputs :
       \E run \in searchAndFilterInventoryItems(filters, options, Store) :
         Finish("searchAndFilterInventoryItems", <<filters, options>>, run)

GetLowStockItems ==
  /\ Idle
  /\ \E options \in OptionsInputs : \E run \in getLowStockItems(options, Store) :
       Finish("getLowStockItems", <<options>>, run)

GetAllCategories ==
  /\ Idle
  /\ \E run \in getAllCategories(Store) : Finish("getAllCategories", <<>>, run)


CreateCategory ==
  /\ Idle
  /\ \E category \in CategoryInputs : \E run \in createCategory(category, Store) :
       Finish("createCategory", <<category>>, run)

CreateMultipleInventoryItems ==
  /\ Idle
  /\ \E list \in {Nul, ValidA} \cup {Arr(a) : a \in SeqsUpTo(BatchItemInputs, MaxBatch)} :
       \E run \in createMultipleInventoryItems(list, Store) :
         Finish("createMultipleInventoryItems", <<list>>, run)

GetInventoryStatistics ==
  /\ Idle
  /\ \E run \in getInventoryStatistics(Store) : Finish("getInventoryStatistics", <<>>, run)


\* a subscribe call: a handle without error registers its channel
Subscribe(name, callback, options, handle) ==
  /\ Idle
  /\ op' = Call(name, <<Str(callback), options>>)
  /\ result' = handle
  /\ calls' = <<>>
  /\ answers' = <<>>
  /\ channels' = IF handle.subscription.t = "channel"
                 THEN channels \cup {handle.subscription} ELSE channels
  /\ batch' = NoBatch
  /\ UNCHANGED <<items, cats, clock>>

SubscribeToInventoryItems ==
  /\ Idle
  /\ \E callback \in CallbackInputs : \E options \in SubOptionsInputs : \E setup \in SetupInputs :
       Subscribe("subscribeToInventoryItems", callback, options,
                 subscribeToInventoryItems(callback, options, setup))

SubscribeToCategories ==
  /\ Idle
  /\ \E callback \in CallbackInputs : \E options \in SubOptionsInputs : \E setup \in SetupInputs :
       Subscribe("subscribeToCategories", callback, options,
                 subscribeToCategories(callback, options, setup))

\* handle.unsubscribe(): supabase.removeChannel(subscription)
Unsubscribe ==
  /\ Idle
  /\ \E ch \in channels : channels' = channels \ {ch}
  /\ UNCHANGED <<items, cats, clock, op, result, calls, answers, batch>>

\* an object with no property a row of inventory_items has
EmptyRow == Candidate(Undef, Undef, Undef, Undef, Undef, Undef)

\* the snapshots of inventory_items rows the feed sends: stored rows (the
\* threshold set, 0 or NULL, the description set or NULL), the primary key
\* alone, the empty object, and null
ItemSnapshots ==
  { ItemObj(Str("1"), Str("Widget"), Str("W-1"), Num(5), Str("Tools"), threshold,
            description, Num(1), Num(1)) :
      threshold \in {Num(3), Num(0), Nul}, description \in {Str("d"), Nul} }
  \cup {ItemObj(Str("1"), Undef, Undef, Undef, Undef, Undef, Undef, Undef, Undef),
        EmptyRow, Nul}

CategorySnapshots ==
  {CategoryObj(Str("1"), Str("Tools"), Nul, Num(1)),
   CategoryObj(Undef, Undef, Undef, Undef), Nul}

Snapshots(tbl) == IF tbl = "inventory_items" THEN ItemSnapshots ELSE CategorySnapshots

\* the store's delivery loop calls the function registered on a channel with
\* a change event the channel has asked for
Deliver ==
  /\ Idle
  /\ \E ch \in channels :
       \E eventType \in {"INSERT", "UPDATE", "DELETE"} :
         \E new \in Snapshots(ch.table) : \E old \in Snapshots(ch.table) :
           /\ ch.events \in {Str("*"), Str(eventType)}
           /\ op' = Call("deliver", <<ch, ChangePayload(eventType, new, old)>>)
           /\ result' = registeredHandler(ch, ChangePayload(eventType, new, old))
  /\ UNCHANGED <<items, cats, clock, channels, calls, answers, batch>>

\* the entries of a set of positions, in ascending order
RECURSIVE Ascending(_)
Ascending(S) ==
  IF S = {} THEN <<>>
  ELSE LET m == CHOOSE x \in S : \A y \in S : x <= y IN <<m>> \o Ascending(S \ {m})

\* where the batch update stands after a stretch of its loop
BatchStep(updates, step, sent, answered) ==
  IF step.done
  THEN /\ result' = step.result
       /\ batch' = [NoBatch EXCEPT !.sent = sent, !.answered = answered]
  ELSE /\ result' = Undef
       /\ batch' = [active |-> TRUE, updates |-> updates, i |-> step.i,
                    results |-> step.results, errors |-> step.errors,
                    sent |-> sent \o Ascending(EntriesSentAt(updates, step.i)),
                    answered |-> answered]

\* the call of updateMultipleInventoryItems, up to its first await of the
\* store or, when there is none, to its return
UpdateMultipleCall ==
  /\ Idle
  /\ \E list \in {Nul} \cup {Arr(a) : a \in SeqsUpTo(EntryInputs, MaxBatch)} :
       /\ op' = Call("updateMultipleInventoryItems", <<list>>)
       /\ IF list.t # "array" \/ Len(list.items) = 0
          THEN /\ result' = batchUpdateCatch(
                              JsError("Updates array is required and must not be empty"))
               /\ batch' = NoBatch
               /\ calls' = <<>>
          ELSE LET step == batchUpdateLoop(list.items, 1, <<>>, <<>>)
               IN /\ BatchStep(list.items, step, <<>>, {})
                  /\ calls' = IF step.done THEN <<>> ELSE <<step.request>>
       /\ answers' = <<>>
       /\ UNCHANGED <<items, cats, clock, channels>>

\* the store answers the update the batch awaits; the loop runs on to the next
\* await or to the return
UpdateMultipleAnswer ==
  /\ batch.active
  /\ \E o \in Outcomes(Store, calls[Len(calls)]) :
       LET r == updateInventoryItemResume(o.answer)
           step == batchUpdateResume(batch.updates, batch.i, batch.results, batch.errors, r)
       IN /\ BatchStep(batch.updates, step, batch.sent, batch.answered \cup {batch.i})
          /\ calls' = IF step.done THEN calls ELSE Append(calls, step.request)
          /\ answers' = Append(answers, o.answer)
          /\ items' = o.st.items
          /\ cats' = o.st.cats
          /\ clock' = o.st.clock
  /\ UNCHANGED <<channels, op>>

\* the caller has taken the result of its call and is free to make the next
TakeResult ==
  /\ ~Idle
  /\ ~batch.active
  /\ op' = Call("none", <<>>)
  /\ result' = Undef
  /\ calls' = <<>>
  /\ answers' = <<>>
  /\ batch' = NoBatch
  /\ UNCHANGED <<items, cats, clock, channels>>

Next ==
  \/ GetAllInventoryItems
  \/ GetInventoryItemById
  \/ CreateInventoryItem
  \/ UpdateInventoryItem
  \/ DeleteInventoryItem
  \/ SearchAndFilterInventoryItems
  \/ GetLowStockItems
  \/ GetAllCategories
  \/ CreateCategory
  \/ CreateMultipleInventoryItems
  \/ GetInventoryStatistics
  \/ UpdateMultipleCall
  \/ UpdateMultipleAnswer
  \/ TakeResult

\* the query service called by one caller, one call at a time
Spec == Init /\ [][Next]_vars

NextFeed ==
  \/ SubscribeToInventoryItems
  \/ SubscribeToCategories
  \/ Unsubscribe
  \/ Deliver
  \/ TakeResult

\* the change-feed subscriptions
SpecFeed == Init /\ [][NextFeed]_vars

\* ------------------------------------------------------------------------
\* lib/types.js: transformFormToInventoryItem
\* ------------------------------------------------------------------------
DecimalDigits == <<"0", "1", "2", "3", "4", "5", "6", "7", "8", "9">>

HexLetters == <<"a", "b", "c", "d", "e", "f">>

HexCapitals == <<"A", "B", "C", "D", "E", "F">>

\* the value of the character c as a digit of the radix, -1 when it is none
DigitOf(c, radix) ==
  IF \E k \in 1..10 : DecimalDigits[k] = c
  THEN (CHOOSE k \in 1..10 : DecimalDigits[k] = c) - 1
  ELSE IF radix = 16 /\ \E k \in 1..6 : c \in {HexLetters[k], HexCapitals[k]}
       THEN (CHOOSE k \in 1..6 : c \in {HexLetters[k], HexCapitals[k]}) + 9
  ELSE -1

NotANumber == [nan |-> TRUE]

\* the longest prefix of digits of s from position i on, read in the radix
RECURSIVE ParseDigits(_, _, _, _, _)
ParseDigits(s, i, radix, acc, any) ==
  IF i > Len(s) \/ DigitOf(SubSeq(s, i, i), radix) < 0
  THEN IF any THEN [nan |-> FALSE, n |-> acc] ELSE NotANumber
  ELSE ParseDigits(s, i + 1, radix, acc * radix + DigitOf(SubSeq(s, i, i), radix), TRUE)

\* the text parseInt reads: String(v)
FormText(v) ==
  CASE v.t = "string" -> v.s
    [] v.t = "undefined" -> "undefined"
    [] v.t = "null" -> "null"
    [] v.t = "number" -> ToString(v.n) \o (IF v.f = 0 THEN "" ELSE ".5")
    [] OTHER -> "[object Object]"

\* a parser that takes a string of digits only
ParseIntWhole(v) ==
  LET s == FormText(v)
  IN IF Len(s) > 0 /\ \A i \in 1..Len(s) : DigitOf(SubSeq(s, i, i), 10) >= 0
     THEN ParseDigits(s, 1, 10, 0, FALSE) ELSE NotANumber

\* parseInt(v) with no radix: leading white space, a sign, 0x for hexadecimal,
\* then the digits up to the first character that is none
ParseInt(v) ==
  LET s == TrimStart(FormText(v))
      signed == Len(s) > 0 /\ SubSeq(s, 1, 1) \in {"-", "+"}
      negative == Len(s) > 0 /\ SubSeq(s, 1, 1) = "-"
      body == IF signed THEN SubSeq(s, 2, Len(s)) ELSE s
      hex == Len(body) >= 2 /\ SubSeq(body, 1, 2) \in {"0x", "0X"}
      digits == IF hex THEN ParseDigits(body, 3, 16, 0, FALSE)
                ELSE ParseDigits(body, 1, 10, 0, FALSE)
  IN IF digits.nan THEN NotANumber
     ELSE [nan |-> FALSE, n |-> IF negative THEN 0 - digits.n ELSE digits.n]

\* the object transformFormToInventoryItem returns, or the TypeError it throws
transformFormToInventoryItem(formData) ==
  IF IsNullish(formData) THEN Threw(TypeErrorRead(formData, "quantity"))
  ELSE LET quantity == ParseInt(formData.quantity)
           threshold == ParseInt(formData.low_stock_threshold)
           name == OptionalTrim(formData.name, "formData.name")
           sku == OptionalTrim(formData.sku, "formData.sku")
           category == OptionalTrim(formData.category, "formData.category")
           description == OptionalTrim(formData.description, "formData.description")
       IN IF name.thrown THEN Threw(name.err)
          ELSE IF sku.thrown THEN Threw(sku.err)
          ELSE IF category.thrown THEN Threw(category.err)
          ELSE IF description.thrown THEN Threw(description.err)
          ELSE Candidate(OrElse(name.value, Str("")),
                         OrElse(sku.value, Str("")),
                         IF quantity.nan THEN Num(0) ELSE Num(quantity.n),
                         OrElse(category.value, Str("")),
                         IF Truthy(formData.low_stock_threshold) /\ ~threshold.nan
                         THEN Num(threshold.n) ELSE Num(DefaultThreshold),
                         OrElse(description.value, Str("")))

\* ------------------------------------------------------------------------
\* lib/types.js: filterInventoryItems
\* ------------------------------------------------------------------------
\* a filter whose search compares the characters as they are
filterInventoryItemsCaseSensitive(list, filters) ==
  IF Len(list) > 0 /\ IsNullish(filters) THEN Threw(TypeErrorRead(filters, "search"))
  ELSE Arr(SelectSeq(list, LAMBDA item :
         /\ Truthy(filters.search) =>
              \/ Includes(item.name.s, filters.search.s)
              \/ Includes(item.sku.s, filters.search.s)
         /\ ~(Truthy(filters.category) /\ filters.category # item.category)
         /\ ~(Truthy(filters.lowStockOnly) /\ ~isLowStock(item))))

\* items.filter(...): an item stays unless one of the three filters is set
\* and refuses it
filterInventoryItems(list, filters) ==
  IF Len(list) > 0 /\ IsNullish(filters) THEN Threw(TypeErrorRead(filters, "search"))
  ELSE Arr(SelectSeq(list, LAMBDA item :
         /\ Truthy(filters.search) =>
              \/ Includes(ToLower(item.name.s), ToLower(filters.search.s))
              \/ Includes(ToLower(item.sku.s), ToLower(filters.search.s))
         /\ ~(Truthy(filters.category) /\ filters.category # item.category)
         /\ ~(Truthy(filters.lowStockOnly) /\ ~isLowStock(item))))

\* the order of String.prototype.localeCompare on the characters the model's
\* strings are made of: letters compare without regard to case first
PrimaryOrder == " -0123456789abcdefghijklmnopqrstuvwxyz"

PrimaryRank(c) ==
  LET l == LowerChar(c)
  IN IF \E i \in 1..Len(PrimaryOrder) : SubSeq(PrimaryOrder, i, i) = l
     THEN CHOOSE i \in 1..Len(PrimaryOrder) : SubSeq(PrimaryOrder, i, i) = l
     ELSE 0

RECURSIVE PrimaryCompare(_, _)
PrimaryCompare(a, b) ==
  IF Len(a) = 0 /\ Len(b) = 0 THEN 0
  ELSE IF Len(a) = 0 THEN -1
  ELSE IF Len(b) = 0 THEN 1
  ELSE LET ra == PrimaryRank(SubSeq(a, 1, 1))
           rb == PrimaryRank(SubSeq(b, 1, 1))
       IN IF ra < rb THEN -1
          ELSE IF ra > rb THEN 1
          ELSE PrimaryCompare(SubSeq(a, 2, Len(a)), SubSeq(b, 2, Len(b)))

\* strings equal but for case: at the first difference the lower case letter
\* comes first
RECURSIVE CaseCompare(_, _)
CaseCompare(a, b) ==
  IF Len(a) = 0 \/ Len(b) = 0 THEN 0
  ELSE LET ca == SubSeq(a, 1, 1)
           cb == SubSeq(b, 1, 1)
       IN IF ca = cb THEN CaseCompare(SubSeq(a, 2, Len(a)), SubSeq(b, 2, Len(b)))
          ELSE IF ca = LowerChar(ca) THEN -1 ELSE 1

\* a.localeCompare(b) on two strings: negative, zero or positive
localeCompare(a, b) ==
  LET primary == PrimaryCompare(a.s, b.s)
  IN IF primary # 0 THEN primary ELSE CaseCompare(a.s, b.s)

\* a - b on two numbers, in halves
Minus(a, b) == (2 * a.n + a.f) - (2 * b.n + b.f)

\* the value the switch on sortBy assigns to comparison
comparison(a, b, sortBy) ==
  CASE sortBy = Str("name") -> localeCompare(a.name, b.name)
    [] sortBy = Str("sku") -> localeCompare(a.sku, b.sku)
    [] sortBy = Str("quantity") -> Minus(a.quantity, b.quantity)
    [] sortBy = Str("category") -> localeCompare(a.category, b.category)
    [] sortBy = Str("lowStock") -> Minus(a.quantity, b.quantity)
    [] OTHER -> localeCompare(a.name, b.name)

\* the comparator with case 'lowStock' comparing quantities only
compareItemsUngrouped(a, b, sortBy, sortOrder) ==
  IF sortOrder = Str("desc") THEN 0 - comparison(a, b, sortBy)
  ELSE comparison(a, b, sortBy)

\* the comparator handed to sort: case 'lowStock' returns at once when only
\* one of the two items is low on stock
compareItems(a, b, sortBy, sortOrder) ==
  IF sortBy = Str("lowStock") /\ isLowStock(a) /\ ~isLowStock(b) THEN -1
  ELSE IF sortBy = Str("lowStock") /\ ~isLowStock(a) /\ isLowStock(b) THEN 1
  ELSE IF sortOrder = Str("desc") THEN 0 - comparison(a, b, sortBy)
  ELSE comparison(a, b, sortBy)

\* Array.prototype.sort, which is stable: x goes before the first element it
\* is strictly less than
RECURSIVE SortInsert(_, _, _, _)
SortInsert(x, sorted, sortBy, sortOrder) ==
  IF Len(sorted) = 0 THEN <<x>>
  ELSE IF compareItems(x, sorted[1], sortBy, sortOrder) < 0 THEN <<x>> \o sorted
  ELSE <<sorted[1]>> \o SortInsert(x, Tail(sorted), sortBy, sortOrder)

RECURSIVE ArraySort(_, _, _)
ArraySort(list, sortBy, sortOrder) ==
  IF Len(list) = 0 THEN <<>>
  ELSE SortInsert(list[Len(list)],
                  ArraySort(SubSeq(list, 1, Len(list) - 1), sortBy, sortOrder),
                  sortBy, sortOrder)

\* what a call leaves behind: the arrays by the name of the variable that
\* holds them, and the array the call returned
Sorted(heap, returned) ==
  [t |-> "result", thrown |-> FALSE, heap |-> heap, returned |-> returned]

\* sortInventoryItems sorting the array it was given
sortInventoryItemsInPlace(list, sortBy, sortOrder) ==
  LET by == IF sortBy = Undef THEN Str("name") ELSE sortBy
      order == IF sortOrder = Undef THEN Str("asc") ELSE sortOrder
      sorted == ArraySort(list, by, order)
  IN Sorted([items |-> sorted], "items")

\* [...items].sort(comparator): the copy is sorted and returned
sortInventoryItems(list, sortBy, sortOrder) ==
  LET by == IF sortBy = Undef THEN Str("name") ELSE sortBy
      order == IF sortOrder = Undef THEN Str("asc") ELSE sortOrder
  IN Sorted([items |-> list, sortedItems |-> ArraySort(list, by, order)], "sortedItems")

\* a call of a pure function of lib/types.js: result is the value it returns
TypesCall(name, args, value) ==
  /\ op' = Call(name, args)
  /\ result' = value
  /\ UNCHANGED <<items, cats, clock, channels, calls, answers, batch>>

IsLowStock ==
  /\ Idle
  /\ \E item \in StockItems : TypesCall("isLowStock", <<item>>, Bool(isLowStock(item)))

\* a string of n copies of the character c
RECURSIVE Repeat(_, _)
Repeat(c, n) ==
  IF n = 0 THEN ""
  ELSE IF n % 2 = 1 THEN c \o Repeat(c, n - 1)
  ELSE LET half == Repeat(c, n \div 2) IN half \o half

\* what a caller of a validator gets: the {isValid, errors} object, or the
\* exception
ValidationResult(v) ==
  IF v.thrown THEN Threw(v.err)
  ELSE [t |-> "object", isValid |-> Bool(v.isValid), errors |-> v.errors]

NameInputs ==
  { Undef, Nul, Str(""), Str("  "), Str("Widget"), Str(Repeat("n", MaxNameLen)),
    Str(Repeat("n", MaxNameLen + 1)), Num(5) }

SkuInputs ==
  { Undef, Str(""), Str("W-1"), Str(Repeat("s", MaxSkuLen)),
    Str(Repeat("s", MaxSkuLen + 1)), Num(7) }

QuantityInputs == {Undef, Nul, Num(0), Num(5), Num(-1), Half(10), Str("5")}

CategoryFieldInputs ==
  { Nul, Str(""), Str(" "), Str("Tools"), Str(Repeat("c", MaxCategoryLen)),
    Str(Repeat("c", MaxCategoryLen + 1)) }

ThresholdInputs == {Undef, Nul, Num(0), Num(3), Num(-1), Half(2)}

Candidates ==
  {Nul, Undef} \cup
  { Candidate(name, sku, quantity, category, threshold, Undef) :
      name \in NameInputs, sku \in SkuInputs, quantity \in QuantityInputs,
      category \in CategoryFieldInputs, threshold \in ThresholdInputs }

CategoryCandidates ==
  {Nul, Undef} \cup
  { [t |-> "object", name |-> name, description |-> Undef] :
      name \in { Undef, Nul, Str(""), Str("  "), Str(" Tools "),
                 Str(Repeat("c", MaxCategoryNameLen)),
                 Str(Repeat("c", MaxCategoryNameLen + 1)), Num(7) } }

ValidateInventoryItem ==
  /\ Idle
  /\ \E item \in Candidates :
       TypesCall("validateInventoryItem", <<item>>,
                 ValidationResult(validateInventoryItem(item)))

ValidateCategory ==
  /\ Idle
  /\ \E category \in CategoryCandidates :
       TypesCall("validateCategory", <<category>>,
                 ValidationResult(validateCategory(category)))

\* rows as the store returns them: the nullable columns set, null or absent
RawRows ==
  { ItemObj(Str("1"), Str("Laptop"), Str("LAP-1"), Num(quantity), Str("Electronics"),
            threshold, description, Num(1), Num(2)) :
      quantity \in {0, 7},
      threshold \in {Undef, Nul, Num(0), Num(3), Num(-1)},
      description \in {Undef, Nul, Str(""), Str(" "), Str("spare")} }

TransformInventoryItem ==
  /\ Idle
  /\ \E rawItem \in RawRows :
       TypesCall("transformInventoryItem", <<rawItem>>, transformInventoryItem(rawItem))

\* what the user typed into a numeric field of the form
FormNumberTexts ==
  { Str("15"), Str(" 42 "), Str("-5"), Str("+7"), Str("10.5"), Str("12abc"),
    Str("abc"), Str(""), Str("  "), Str("0"), Str("0x1A") }

FormInputs ==
  { Candidate(name, Str("  B  "), quantity, category, threshold, description) :
      name \in {Undef, Str(""), Str("  Test Item  ")},
      quantity \in FormNumberTexts \cup {Undef},
      category \in {Undef, Str("  C  ")},
      threshold \in FormNumberTexts \cup {Undef, Nul},
      description \in {Undef, Nul, Str("  D  ")} }

TransformFormToInventoryItem ==
  /\ Idle
  /\ \E formData \in FormInputs :
       TypesCall("transformFormToInventoryItem", <<formData>>,
                 transformFormToInventoryItem(formData))

\* the longest list handed to filterInventoryItems and to sortInventoryItems
MaxItems == 3

ListItems ==
  { ItemObj(Str("1"), Str("Widget"), Str("W-1"), Num(5), Str("Tools"), Num(10), Str(""),
            Num(1), Num(1)),
    ItemObj(Str("2"), Str("Gadget"), Str("WID-2"), Num(50), Str("Tools"), Num(10), Str(""),
            Num(2), Num(2)),
    ItemObj(Str("3"), Str("bolt Widget"), Str("B-3"), Num(2), Str("Parts"), Num(1), Str(""),
            Num(3), Num(3)) }

SearchFilters ==
  { FiltersObj(search, category, lowStockOnly, Undef, Undef) :
      search \in {Undef, Str(""), Str("wid"), Str("WIDGET"), Str("zzz")},
      category \in {Undef, Str(""), Str("Tools"), Str("tools")},
      lowStockOnly \in {Undef, Bool(FALSE), Bool(TRUE)} }

FilterInventoryItems ==
  /\ Idle
  /\ \E list \in SeqsUpTo(ListItems, MaxItems) : \E filters \in SearchFilters :
       TypesCall("filterInventoryItems", <<Arr(list), filters>>,
                 filterInventoryItems(list, filters))

\* items to sort: names that differ by case only, equal quantities, equal
\* categories, and quantities on both sides of and at the threshold
SortItems ==
  { ItemObj(Str("1"), Str("widget"), Str("W-1"), Num(5), Str("Tools"), Num(5), Str(""),
            Num(1), Num(1)),
    ItemObj(Str("2"), Str("Widget"), Str("B-2"), Num(5), Str("Tools"), Num(10), Str(""),
            Num(2), Num(2)),
    ItemObj(Str("3"), Str("Bolt"), Str("a-3"), Num(2), Str("Parts"), Num(1), Str(""),
            Num(3), Num(3)),
    ItemObj(Str("4"), Str("Anvil 2"), Str("A-3"), Num(1), Str("parts"), Num(0), Str(""),
            Num(4), Num(4)),
    ItemObj(Str("5"), Str("Anvil"), Str("A-30"), Num(0), Str("Parts"), Num(0), Str(""),
            Num(5), Num(5)) }

SortByInputs ==
  {Undef, Str("name"), Str("sku"), Str("quantity"), Str("category"), Str("lowStock"),
   Str("price")}

SortOrderInputs == {Undef, Str("asc"), Str("desc"), Str("DESC")}

SortInventoryItems ==
  /\ Idle
  /\ \E list \in SeqsUpTo(SortItems, MaxItems) :
       \E sortBy \in SortByInputs : \E sortOrder \in SortOrderInputs :
         TypesCall("sortInventoryItems", <<Arr(list), sortBy, sortOrder>>,
                   sortInventoryItems(list, sortBy, sortOrder))

NextTypes ==
  \/ IsLowStock
  \/ ValidateInventoryItem
  \/ ValidateCategory
  \/ TransformInventoryItem
  \/ TransformFormToInventoryItem
  \/ FilterInventoryItems
  \/ SortInventoryItems
  \/ TakeResult

\* the validator and transformer functions, called on their own
SpecTypes == Init /\ [][NextTypes]_vars

\* ------------------------------------------------------------------------
\* Properties
\* ------------------------------------------------------------------------
\* the last call has come to its end (returned or thrown)
Completed == result.t = "result"

Returned == Completed /\ ~result.thrown

\* C1: isLowStock(item) is true exactly when quantity <= low_stock_threshold,
\* for integer quantity and threshold: true at quantity = threshold, false at
\* quantity 1 and threshold 0.
C1_LowStockIffAtOrBelowThreshold ==
  op.name = "isLowStock" =>
    LET q == op.args[1].quantity.n
        th == op.args[1].low_stock_threshold.n
    IN /\ result.b <=> q <= th
       /\ q = th => result.b
       /\ (q = 1 /\ th = 0) => ~result.b

C1_Witness ==
  /\ op.name = "isLowStock"
  /\ op.args[1].quantity = Num(3)
  /\ op.args[1].low_stock_threshold = Num(3)
  /\ result = Bool(TRUE)

ErrorCodes ==
  {"FETCH_ERROR", "NOT_FOUND", "CREATE_ERROR", "UPDATE_ERROR", "DELETE_ERROR",
   "DUPLICATE_SKU", "DUPLICATE_NAME", "SEARCH_ERROR", "BATCH_CREATE_ERROR",
   "BATCH_UPDATE_ERROR", "BATCH_UPDATE_PARTIAL_ERROR", "STATS_ERROR"}

EnvelopeOps ==
  {"getAllInventoryItems", "getInventoryItemById", "createInventoryItem",
   "updateInventoryItem", "searchAndFilterInventoryItems", "getLowStockItems",
   "getAllCategories", "createCategory", "createMultipleInventoryItems",
   "getInventoryStatistics"}

IsSuccessShape(r) == r.data.t \notin {"null", "undefined"} /\ r.error.t = "null"

IsFailureShape(r) ==
  /\ r.data.t = "null"
  /\ r.error.t = "object"
  /\ {"message", "code", "details"} \subseteq DOMAIN r.error
  /\ r.error.code \in ErrorCodes

C3_NoExceptionReachesCaller == Completed => ~result.thrown

\* the scenario of the batch-update example: a quantity-only update of the
\* stored item "1", then a quantity-only update of an id that is not stored
PartialExample ==
  Arr(<<UpdateEntry(Str("1"), QuantityOnly(5)), UpdateEntry(Str("bad-id"), QuantityOnly(10))>>)

HasRow(id) == \E k \in 1..Len(items) : items[k].id = id

InBatchUpdate == op.name = "updateMultipleInventoryItems" /\ op.args[1].t = "array"

\* C5: updateMultipleInventoryItems sends its store updates in input order and
\* one at a time: every request but the last sent has been answered, so no two
\* updates of a batch are in flight together.
C5_BatchUpdatesOneAtATime ==
  InBatchUpdate =>
    /\ \A k \in 1..Len(batch.sent) : batch.sent[k] \notin batch.answered => k = Len(batch.sent)
    /\ \A k \in 1..(Len(batch.sent) - 1) : batch.sent[k] < batch.sent[k + 1]
    /\ Len(calls) = Len(batch.sent)
    /\ Len(answers) = Cardinality(batch.answered)
    /\ Len(calls) - Len(answers) = (IF batch.active THEN 1 ELSE 0)
    /\ \A k \in 1..Len(calls) :
         /\ calls[k].kind = "update"
         /\ calls[k].id = op.args[1].items[batch.sent[k]].id

C5_Witness ==
  /\ InBatchUpdate
  /\ batch.active
  /\ Len(batch.sent) = 2
  /\ batch.answered = {batch.sent[1]}
  /\ Len(calls) = 2
  /\ Len(answers) = 1

\* the positions (0-based) a partial-error envelope reports as failed
FailedIndexes(r) ==
  IF r.error.t = "null" THEN {}
  ELSE {r.error.details.items[k].index : k \in 1..Len(r.error.details.items)}

\* C6: for a non-empty array of n updates {id, updates},
\* updateMultipleInventoryItems attempts every entry and returns data and error
\* with |data| + |error.details| = n; error is null exactly when no entry
\* failed; each details entry carries the index and id of its entry; data holds
\* the successful results in input order.
C6_BatchAccountsForEveryEntry ==
  ( /\ Completed
    /\ InBatchUpdate
    /\ Len(op.args[1].items) > 0
    /\ \A k \in 1..Len(op.args[1].items) : op.args[1].items[k].t = "object" )
  => LET list == op.args[1].items
         n == Len(list)
     IN /\ ~result.thrown
        /\ result.data.t = "array"
        /\ result.error.t \in {"null", "object"}
        /\ result.error.t = "object" => result.error.details.t = "array"
        /\ Len(result.data.items) + Cardinality(FailedIndexes(result)) = n
        /\ result.error.t = "object" =>
             /\ Len(result.error.details.items) = Cardinality(FailedIndexes(result))
             /\ Len(result.error.details.items) > 0
             /\ \A k \in 1..Len(result.error.details.items) :
                  LET d == result.error.details.items[k]
                  IN d.index \in 0..(n - 1) /\ d.id = list[d.index + 1].id
        /\ LET ok == Ascending({k \in 1..n : (k - 1) \notin FailedIndexes(result)})
           IN \A k \in 1..Len(result.data.items) :
                k <= Len(ok) /\ result.data.items[k].id = list[ok[k]].id

FailsValidation(item) ==
  LET v == validateInventoryItem(item) IN v.thrown \/ ~v.isValid

\* C7: createMultipleInventoryItems never calls the store's insert when its
\* input is not an array, is empty, or holds an item that fails
\* validateInventoryItem, and then returns data null with code
\* BATCH_CREATE_ERROR; when every item is valid it sends all of them, in
\* order, in one insert call.
C7_BatchCreateValidatesBeforeInsert ==
  (Completed /\ op.name = "createMultipleInventoryItems") =>
    LET input == op.args[1]
        bad == \/ input.t # "array"
               \/ Len(input.items) = 0
               \/ \E k \in 1..Len(input.items) : FailsValidation(input.items[k])
    IN IF bad
       THEN /\ calls = <<>>
            /\ ~result.thrown
            /\ result.data = Nul
            /\ result.error.t = "object"
            /\ result.error.code = "BATCH_CREATE_ERROR"
       ELSE /\ Len(calls) = 1
            /\ calls[1].kind = "insert"
            /\ calls[1].table = "inventory_items"
            /\ Len(calls[1].rows) = Len(input.items)
            /\ \A k \in 1..Len(input.items) :
                 /\ calls[1].rows[k].sku = Str(Trim(input.items[k].sku.s))
                 /\ calls[1].rows[k].quantity = input.items[k].quantity

C7_Witness ==
  /\ Completed
  /\ op.name = "createMultipleInventoryItems"
  /\ op.args[1] = Arr(<<ValidA, FourErrors>>)
  /\ calls = <<>>
  /\ result.error.code = "BATCH_CREATE_ERROR"

C7_WitnessSingleInsert ==
  /\ Completed
  /\ op.name = "createMultipleInventoryItems"
  /\ op.args[1] = Arr(<<ValidA, ValidB>>)
  /\ Len(calls) = 1
  /\ Len(calls[1].rows) = 2
  /\ result.error = Nul

\* limit and offset as the caller of a list operation gave them: 0 when absent
GivenLimit(o) == IF o.t = "object" /\ o.limit.t = "number" THEN o.limit.n ELSE 0

GivenOffset(o) == IF o.t = "object" /\ o.offset.t = "number" THEN o.offset.n ELSE 0

\* the rows of a store answer, transformed, restricted to
\* quantity <= low_stock_threshold, then cut to offset .. offset+limit-1
ExpectedLowStock(rows, limit, offset) ==
  LET transformed == [k \in 1..Len(rows) |-> transformInventoryItem(rows[k])]
      kept == SelectSeq(transformed,
                        LAMBDA item : item.quantity.n <= item.low_stock_threshold.n)
      last == IF offset + limit < Len(kept) THEN offset + limit ELSE Len(kept)
  IN IF limit > 0
     THEN [k \in 1..(IF last > offset THEN last - offset ELSE 0) |-> kept[offset + k]]
     ELSE kept

StoreAnswered == Len(answers) = 1 /\ ~answers[1].rejected /\ answers[1].error = Nul

\* C8: searchAndFilterInventoryItems with lowStockOnly sends the search,
\* category and quantity predicates and the ordering but no range, and returns
\* the store's rows transformed, restricted to quantity <= low_stock_threshold
\* and cut to offset .. offset+limit-1 when a limit is set; without
\* lowStockOnly it sends the range offset .. offset+limit-1 to the store.
C8_LowStockSearchFiltersBeforePaging ==
  (Completed /\ op.name = "searchAndFilterInventoryItems" /\ Len(calls) > 0) =>
    LET f == op.args[1]
        o == op.args[2]
        low == f.t = "object" /\ Truthy(f.lowStockOnly)
        limit == GivenLimit(o)
        offset == GivenOffset(o)
    IN /\ Len(calls) = 1
       /\ calls[1].kind = "select"
       /\ low => /\ calls[1].range = NoRange
                 /\ calls[1].eqCategory = (IF Truthy(f.category) THEN f.category ELSE Nul)
                 /\ calls[1].gte = Default(f.minQuantity, Nul)
                 /\ calls[1].lte = Default(f.maxQuantity, Nul)
                 /\ StoreAnswered =>
                      /\ ~result.thrown
                      /\ result.error = Nul
                      /\ result.data = Arr(ExpectedLowStock(answers[1].data.items, limit, offset))
       /\ ~low => calls[1].range =
                    (IF limit > 0 THEN Range(offset, offset + limit - 1) ELSE NoRange)

C8_Witness ==
  /\ Completed
  /\ op.name = "searchAndFilterInventoryItems"
  /\ op.args[1].t = "object"
  /\ Truthy(op.args[1].lowStockOnly)
  /\ GivenLimit(op.args[2]) = 1
  /\ StoreAnswered
  /\ Len(answers[1].data.items) = 2
  /\ \E k \in 1..2 : answers[1].data.items[k].quantity.n > 10
  /\ Len(result.data.items) = 1

C8_WitnessRangeSent ==
  /\ Completed
  /\ op.name = "searchAndFilterInventoryItems"
  /\ op.args[1].t = "object"
  /\ ~Truthy(op.args[1].lowStockOnly)
  /\ Len(calls) = 1
  /\ calls[1].range = Range(1, 2)

\* C9: getLowStockItems fetches with no range whatever options it is given,
\* ordered by quantity ascending when no sort is given, keeps exactly the
\* items with quantity <= low_stock_threshold, and applies the caller's offset
\* and limit to the kept list only.
C9_LowStockFetchesAllThenPaginates ==
  (Completed /\ op.name = "getLowStockItems") =>
    LET o == op.args[1]
    IN /\ o.t # "null" => Len(calls) = 1
       /\ \A k \in 1..Len(calls) :
            /\ calls[k].kind = "select"
            /\ calls[k].range = NoRange
            /\ (o.t = "undefined" \/ o.sortBy.t = "undefined") =>
                 calls[k].order = "quantity" /\ calls[k].ascending
       /\ StoreAnswered =>
            /\ ~result.thrown
            /\ result.error = Nul
            /\ result.data =
                 Arr(ExpectedLowStock(answers[1].data.items, GivenLimit(o), GivenOffset(o)))

C9_Witness ==
  /\ Completed
  /\ op.name = "getLowStockItems"
  /\ GivenLimit(op.args[1]) = 1
  /\ GivenOffset(op.args[1]) = 1
  /\ StoreAnswered
  /\ Len(answers[1].data.items) = 2
  /\ Len(result.data.items) = 1
  /\ calls[1].order = "quantity"

\* C10: when validateInventoryItem rejects the input of createInventoryItem,
\* the store's insert is never called and the result is data null with code
\* CREATE_ERROR and a message that holds every field error message of the
\* validation result, joined by ', '.
C10_CreateRejectsInvalidBeforeInsert ==
  (Completed /\ op.name = "createInventoryItem") =>
    LET v == validateInventoryItem(op.args[1])
    IN (~v.thrown /\ ~v.isValid) =>
         /\ calls = <<>>
         /\ ~result.thrown
         /\ result.data = Nul
         /\ result.error.code = "CREATE_ERROR"
         /\ result.error.message.t = "string"
         /\ Includes(result.error.message.s, Join(ErrorValues(v.errors)))
         /\ \A k \in 1..Len(v.errors) : Includes(result.error.message.s, v.errors[k].msg)

C10_Witness ==
  /\ Completed
  /\ op.name = "createInventoryItem"
  /\ op.args[1] = FourErrors
  /\ calls = <<>>
  /\ result.error.message =
       Str("Validation failed: Name is required, SKU is required, Quantity must be a non-negative integer, Category is required")

\* the candidates a create call was given, as a sequence
CreateInputs ==
  IF op.name = "createInventoryItem" THEN <<op.args[1]>> ELSE op.args[1].items

\* C11: createInventoryItem and createMultipleInventoryItems send
\* low_stock_threshold = 10 to the store exactly when the input's threshold is
\* undefined or null; any other valid input value, 0 included, is sent as given.
C11_DefaultThresholdOnlyWhenUnset ==
  ( /\ Completed
    /\ op.name \in {"createInventoryItem", "createMultipleInventoryItems"}
    /\ Len(calls) = 1 )
  => \A k \in 1..Len(calls[1].rows) :
       calls[1].rows[k].low_stock_threshold =
         (IF IsNullish(CreateInputs[k].low_stock_threshold) THEN Num(DefaultThreshold)
          ELSE CreateInputs[k].low_stock_threshold)

\* C12: createInventoryItem, updateInventoryItem and
\* createMultipleInventoryItems return DUPLICATE_SKU, and createCategory
\* returns DUPLICATE_NAME, exactly when the store's error code was the
\* uniqueness-violation code; any other store failure, whatever its message
\* says, yields another code.
C12_DuplicateCodeIffUniqueViolation ==
  ( /\ Returned
    /\ op.name \in {"createInventoryItem", "updateInventoryItem",
                    "createMultipleInventoryItems", "createCategory"}
    /\ Len(answers) = 1
    /\ ~answers[1].rejected )
  => LET unique == Truthy(answers[1].error) /\ answers[1].error.code = UniqueViolation
         duplicate == /\ result.error.t = "object"
                      /\ result.error.code \in {"DUPLICATE_SKU", "DUPLICATE_NAME"}
     IN duplicate <=> unique

\* an id that is missing or the empty string
EmptyId(id) == IsNullish(id) \/ id = Str("")

\* the store answered the only request with the no-rows error
StoreSaidNoRows ==
  /\ Len(answers) = 1
  /\ ~answers[1].rejected
  /\ Truthy(answers[1].error)
  /\ answers[1].error.code = NoRowsCode

\* C13: getInventoryItemById with an empty or missing id returns FETCH_ERROR
\* with message 'Item ID is required' and sends nothing to the store; with a
\* non-empty id the store does not find it returns NOT_FOUND;
\* updateInventoryItem and deleteInventoryItem with an empty id return
\* UPDATE_ERROR and DELETE_ERROR and send nothing to the store.
C13_IdChecks ==
  Completed =>
    /\ (op.name = "getInventoryItemById" /\ EmptyId(op.args[1])) =>
         /\ calls = <<>>
         /\ ~result.thrown
         /\ result.data = Nul
         /\ result.error.code = "FETCH_ERROR"
         /\ result.error.message = Str("Item ID is required")
    /\ (op.name = "getInventoryItemById" /\ ~EmptyId(op.args[1]) /\ StoreSaidNoRows) =>
         /\ ~result.thrown
         /\ result.data = Nul
         /\ result.error.code = "NOT_FOUND"
    /\ (op.name = "updateInventoryItem" /\ EmptyId(op.args[1])) =>
         /\ calls = <<>>
         /\ ~result.thrown
         /\ result.data = Nul
         /\ result.error.code = "UPDATE_ERROR"
    /\ (op.name = "deleteInventoryItem" /\ EmptyId(op.args[1])) =>
         /\ calls = <<>>
         /\ ~result.thrown
         /\ result.success = Bool(FALSE)
         /\ result.error.code = "DELETE_ERROR"

C13_Witness ==
  /\ Completed
  /\ op.name = "getInventoryItemById"
  /\ op.args[1] = Str("")
  /\ calls = <<>>
  /\ result.error.code = "FETCH_ERROR"

C13_WitnessNotFound ==
  /\ Completed
  /\ op.name = "getInventoryItemById"
  /\ op.args[1] = Str("bad-id")
  /\ StoreSaidNoRows
  /\ result.error.code = "NOT_FOUND"

C13_WitnessWrites ==
  /\ Completed
  /\ op.name \in {"updateInventoryItem", "deleteInventoryItem"}
  /\ op.args[1] = Undef
  /\ calls = <<>>
  /\ result.error.code \in {"UPDATE_ERROR", "DELETE_ERROR"}

\* C15: validateInventoryItem and validateCategory never throw: for every
\* candidate, a non-string name, sku or category and a null or undefined
\* candidate included, they return a structure with isValid and errors.
C15_ValidatorsNeverThrow ==
  op.name \in {"validateInventoryItem", "validateCategory"} =>
    /\ result.t = "object"
    /\ {"isValid", "errors"} \subseteq DOMAIN result

\* the fields of the errors mapping a validator returned
ErrorFields == {result.errors[k].field : k \in 1..Len(result.errors)}

\* the message the errors mapping holds for a field, "" when it has none
ErrorMessage(field) ==
  IF field \in ErrorFields
  THEN (CHOOSE e \in {result.errors[k] : k \in 1..Len(result.errors)} : e.field = field).msg
  ELSE ""

\* a candidate whose name, sku and category are strings or absent
StringsOrAbsent(c) ==
  /\ c.t = "object"
  /\ \A f \in {"name", "sku", "category"} : c[f].t \in {"string", "undefined", "null"}

\* the rule of a string field: present, not blank, not longer than the limit
StringViolates(v, limit) == IsNullish(v) \/ Trim(v.s) = "" \/ Len(v.s) > limit

\* a non-negative integer
IsCount(v) == v.t = "number" /\ v.f = 0 /\ v.n >= 0

\* C14: validateInventoryItem checks every field independently of the others:
\* errors has an entry for name, sku, quantity, category or
\* low_stock_threshold exactly when that field violates its own rule, and
\* isValid is true exactly when errors is empty; empty name, empty sku,
\* quantity -1 and empty category give exactly those four errors.
C14_FieldChecksIndependent ==
  (op.name = "validateInventoryItem" /\ StringsOrAbsent(op.args[1])) =>
    LET c == op.args[1]
    IN /\ result.t = "object"
       /\ ("name" \in ErrorFields) <=> StringViolates(c.name, MaxNameLen)
       /\ ("sku" \in ErrorFields) <=> StringViolates(c.sku, MaxSkuLen)
       /\ ("category" \in ErrorFields) <=> StringViolates(c.category, MaxCategoryLen)
       /\ ("quantity" \in ErrorFields) <=> ~IsCount(c.quantity)
       /\ ("low_stock_threshold" \in ErrorFields) <=>
            (~IsNullish(c.low_stock_threshold) /\ ~IsCount(c.low_stock_threshold))
       /\ ErrorFields \subseteq {"name", "sku", "quantity", "category", "low_stock_threshold"}
       /\ Cardinality(ErrorFields) = Len(result.errors)
       /\ result.isValid = Bool(Len(result.errors) = 0)

C14_Witness ==
  /\ op.name = "validateInventoryItem"
  /\ op.args[1].t = "object"
  /\ op.args[1].name = Str("")
  /\ op.args[1].sku = Str("")
  /\ op.args[1].quantity = Num(-1)
  /\ op.args[1].category = Str("")
  /\ result.t = "object"
  /\ ErrorFields = {"name", "sku", "quantity", "category"}
  /\ result.isValid = Bool(FALSE)

\* the error a string field has to get: required when absent, empty or
\* blank, else too long when above the limit, else none
ExpectedStringError(v, label, limit) ==
  IF IsNullish(v) \/ Trim(v.s) = "" THEN label \o " is required"
  ELSE IF Len(v.s) > limit
       THEN label \o " must be less than " \o ToString(limit) \o " characters"
  ELSE ""

\* C16: for the string fields of validateInventoryItem and validateCategory,
\* an absent, empty or whitespace-only value gets '<Field> is required';
\* otherwise a length above the limit (255 for the item name, 100 for sku,
\* category and category name) gets the 'must be less than' error; a
\* non-blank value of exactly the limit is accepted.
C16_StringFieldRules ==
  /\ (op.name = "validateInventoryItem" /\ StringsOrAbsent(op.args[1])) =>
       /\ result.t = "object"
       /\ ErrorMessage("name") = ExpectedStringError(op.args[1].name, "Name", 255)
       /\ ErrorMessage("sku") = ExpectedStringError(op.args[1].sku, "SKU", 100)
       /\ ErrorMessage("category") = ExpectedStringError(op.args[1].category, "Category", 100)
  /\ ( /\ op.name = "validateCategory"
       /\ op.args[1].t = "object"
       /\ op.args[1].name.t \in {"string", "undefined", "null"} ) =>
       /\ result.t = "object"
       /\ ErrorMessage("name") = ExpectedStringError(op.args[1].name, "Name", 100)

C16_Witness ==
  /\ op.name = "validateInventoryItem"
  /\ StringsOrAbsent(op.args[1])
  /\ op.args[1].name.t = "string"
  /\ Len(op.args[1].name.s) = 255
  /\ op.args[1].sku.t = "string"
  /\ Len(op.args[1].sku.s) = 101
  /\ op.args[1].category = Str(" ")
  /\ ErrorMessage("name") = ""
  /\ ErrorMessage("sku") = "SKU must be less than 100 characters"
  /\ ErrorMessage("category") = "Category is required"

\* C17: quantity undefined or null gets 'Quantity is required'; a present
\* quantity is accepted exactly when it is an integer >= 0 (0 accepted, -1 and
\* 10.5 rejected); low_stock_threshold undefined or null gets no error; a
\* present low_stock_threshold is accepted exactly when it is an integer >= 0.
C17_NumericFieldRules ==
  (op.name = "validateInventoryItem" /\ StringsOrAbsent(op.args[1])) =>
    LET q == op.args[1].quantity
        th == op.args[1].low_stock_threshold
    IN /\ result.t = "object"
       /\ ErrorMessage("quantity") =
            (IF IsNullish(q) THEN "Quantity is required"
             ELSE IF IsCount(q) THEN ""
             ELSE "Quantity must be a non-negative integer")
       /\ ErrorMessage("low_stock_threshold") =
            (IF IsNullish(th) \/ IsCount(th) THEN ""
             ELSE "Low stock threshold must be a non-negative integer")

C17_Witness ==
  /\ op.name = "validateInventoryItem"
  /\ StringsOrAbsent(op.args[1])
  /\ op.args[1].quantity = Num(0)
  /\ op.args[1].low_stock_threshold = Half(2)
  /\ ErrorMessage("quantity") = ""
  /\ ErrorMessage("low_stock_threshold") = "Low stock threshold must be a non-negative integer"

C17_WitnessHalf ==
  /\ op.name = "validateInventoryItem"
  /\ StringsOrAbsent(op.args[1])
  /\ op.args[1].quantity = Half(10)
  /\ op.args[1].low_stock_threshold = Nul
  /\ ErrorMessage("quantity") = "Quantity must be a non-negative integer"
  /\ ErrorMessage("low_stock_threshold") = ""

\* C18: transformInventoryItem copies id, name, sku, quantity, category,
\* created_at and updated_at unchanged, sets low_stock_threshold to the raw
\* value when that is a non-zero number and to 10 when it is null, undefined
\* or 0, and sets description to the raw value when that is a non-empty string
\* and to the empty string otherwise.
C18_TransformDefaults ==
  op.name = "transformInventoryItem" =>
    LET raw == op.args[1]
    IN /\ result.t = "object"
       /\ \A f \in {"id", "name", "sku", "quantity", "category", "created_at", "updated_at"} :
            result[f] = raw[f]
       /\ result.low_stock_threshold =
            (IF raw.low_stock_threshold.t = "number" /\ raw.low_stock_threshold # Num(0)
             THEN raw.low_stock_threshold ELSE Num(10))
       /\ result.description =
            (IF raw.description.t = "string" /\ raw.description.s # ""
             THEN raw.description ELSE Str(""))

C18_Witness ==
  /\ op.name = "transformInventoryItem"
  /\ op.args[1].low_stock_threshold = Num(0)
  /\ op.args[1].description = Nul
  /\ result.low_stock_threshold = Num(10)
  /\ result.description = Str("")

\* what each text of the form reads as: the integer, or none
ParsedTexts ==
  { <<"15", 15>>, <<" 42 ", 42>>, <<"-5", -5>>, <<"+7", 7>>, <<"10.5", 10>>,
    <<"12abc", 12>>, <<"0", 0>>, <<"0x1A", 26>> }

Parses(v) == v.t = "string" /\ \E p \in ParsedTexts : p[1] = v.s

ParsedValue(v) == (CHOOSE p \in ParsedTexts : p[1] = v.s)[2]

\* a text field of the form, trimmed; the empty string when absent
TrimmedOrEmpty(v) == IF v.t = "string" THEN Str(Trim(v.s)) ELSE Str("")

\* C19: transformFormToInventoryItem returns name, sku, category and
\* description trimmed (the empty string when absent), quantity as the integer
\* parsed from the form value or 0 when it does not parse, and
\* low_stock_threshold as the integer parsed from the form value or 10 when the
\* value is absent, empty or does not parse; both numbers are integers.
C19_FormTransform ==
  op.name = "transformFormToInventoryItem" =>
    LET form == op.args[1]
    IN /\ result.t = "object"
       /\ result.name = TrimmedOrEmpty(form.name)
       /\ result.sku = TrimmedOrEmpty(form.sku)
       /\ result.category = TrimmedOrEmpty(form.category)
       /\ result.description = TrimmedOrEmpty(form.description)
       /\ result.quantity =
            (IF Parses(form.quantity) THEN Num(ParsedValue(form.quantity)) ELSE Num(0))
       /\ result.low_stock_threshold =
            (IF Parses(form.low_stock_threshold)
             THEN Num(ParsedValue(form.low_stock_threshold)) ELSE Num(10))
       /\ result.quantity.t = "number" /\ result.quantity.f = 0
       /\ result.low_stock_threshold.t = "number" /\ result.low_stock_threshold.f = 0

C19_Witness ==
  /\ op.name = "transformFormToInventoryItem"
  /\ op.args[1].name = Str("  Test Item  ")
  /\ op.args[1].quantity = Str("12abc")
  /\ op.args[1].low_stock_threshold = Str("0")
  /\ op.args[1].description = Nul
  /\ result.name = Str("Test Item")
  /\ result.quantity = Num(12)
  /\ result.low_stock_threshold = Num(0)
  /\ result.description = Str("")

C19_WitnessDefaults ==
  /\ op.name = "transformFormToInventoryItem"
  /\ op.args[1].quantity = Str("abc")
  /\ op.args[1].low_stock_threshold = Str("")
  /\ result.quantity = Num(0)
  /\ result.low_stock_threshold = Num(10)

\* the search term occurs in the text, letter case aside
OccursIn(term, text) == Includes(ToLower(text), ToLower(term))

\* the conditions an item has to meet together to pass the filters
PassesFilters(item, filters) ==
  /\ \/ ~Truthy(filters.search)
     \/ OccursIn(filters.search.s, item.name.s)
     \/ OccursIn(filters.search.s, item.sku.s)
  /\ ~Truthy(filters.category) \/ filters.category = item.category
  /\ ~Truthy(filters.lowStockOnly) \/ item.quantity.n <= item.low_stock_threshold.n

\* C20: filterInventoryItems returns exactly the items of the input, in input
\* order, for which the search term is empty or occurs case-insensitively in
\* name or sku, the category filter is empty or equals the category, and
\* lowStockOnly is false or the item is low stock; with all three filters empty
\* it returns every item.
C20_FilterKeepsMatchingInOrder ==
  op.name = "filterInventoryItems" =>
    LET list == op.args[1].items
        filters == op.args[2]
    IN /\ result.t = "array"
       /\ result.items = SelectSeq(list, LAMBDA item : PassesFilters(item, filters))
       /\ ( /\ ~Truthy(filters.search)
            /\ ~Truthy(filters.category)
            /\ ~Truthy(filters.lowStockOnly) ) => result.items = list

C20_Witness ==
  /\ op.name = "filterInventoryItems"
  /\ Len(op.args[1].items) = 3
  /\ op.args[2].search = Str("WIDGET")
  /\ op.args[2].category = Str("Tools")
  /\ op.args[2].lowStockOnly = Bool(TRUE)
  /\ Len(result.items) = 2
  /\ result.items[1].id = Str("1")
  /\ result.items[2].id = Str("1")

C20_WitnessOrder ==
  /\ op.name = "filterInventoryItems"
  /\ Len(op.args[1].items) = 3
  /\ op.args[2].search = Str("wid")
  /\ ~Truthy(op.args[2].category)
  /\ ~Truthy(op.args[2].lowStockOnly)
  /\ Len(result.items) = 3
  /\ result.items[1].id = Str("3")
  /\ result.items[3].id = Str("2")

\* the call of sortInventoryItems that has just returned: what it was given
\* and what it gave back
SortCall == op.name = "sortInventoryItems" /\ Completed

SortInput == op.args[1].items

SortOutput == result.heap[result.returned]

\* how often x occurs in seq
Count(seq, x) == Cardinality({ i \in 1..Len(seq) : seq[i] = x })

KnownSortKeys == {Str("name"), Str("sku"), Str("quantity"), Str("category"), Str("lowStock")}

\* C21: sortInventoryItems leaves the array it was given as it was (the same
\* elements in the same order), and returns a new array that is a permutation
\* of it, for every sortBy and sortOrder; a sortBy that is no known key orders
\* by name.
C21_SortCopiesAndPermutes ==
  SortCall =>
    /\ ~result.thrown
    /\ result.returned # "items"
    /\ result.heap.items = SortInput
    /\ Len(SortOutput) = Len(SortInput)
    /\ \A x \in SortItems : Count(SortOutput, x) = Count(SortInput, x)
    /\ op.args[2] \notin KnownSortKeys =>
         \A i, j \in 1..Len(SortOutput) :
           i < j =>
             IF op.args[3] = Str("desc")
             THEN localeCompare(SortOutput[i].name, SortOutput[j].name) >= 0
             ELSE localeCompare(SortOutput[i].name, SortOutput[j].name) <= 0

\* an unknown key and three items out of order: the returned array differs
\* from the one given, which is as it was
C21_Witness ==
  /\ SortCall
  /\ op.args[2] = Str("price")
  /\ Len(SortInput) = 3
  /\ SortOutput # SortInput
  /\ result.heap.items = SortInput
  /\ SortOutput[1].name = Str("Anvil")

\* quantity <= low_stock_threshold
LowOnStock(item) == NumLeq(item.quantity, item.low_stock_threshold)

\* C22: in the result of sortInventoryItems(items, 'lowStock', 'asc') every
\* item with quantity <= low_stock_threshold comes before every item that is
\* not low on stock, and within the low-stock items and within the others the
\* quantities do not decrease.
C22_LowStockFirstThenQuantity ==
  (SortCall /\ op.args[2] = Str("lowStock") /\ op.args[3] = Str("asc")) =>
    \A i, j \in 1..Len(SortOutput) :
      i < j =>
        /\ ~(~LowOnStock(SortOutput[i]) /\ LowOnStock(SortOutput[j]))
        /\ LowOnStock(SortOutput[i]) = LowOnStock(SortOutput[j]) =>
             NumLeq(SortOutput[i].quantity, SortOutput[j].quantity)

\* a low-stock item of quantity 5 is placed before an item of quantity 1 that
\* is not low on stock and was given first
C22_Witness ==
  /\ SortCall
  /\ op.args[2] = Str("lowStock")
  /\ op.args[3] = Str("asc")
  /\ Len(SortInput) = 3
  /\ ~LowOnStock(SortInput[1])
  /\ LowOnStock(SortOutput[1]) /\ LowOnStock(SortOutput[2]) /\ ~LowOnStock(SortOutput[3])
  /\ SortOutput[1].quantity = Num(0)
  /\ SortOutput[2].quantity = Num(5)
  /\ SortOutput[3].quantity = Num(1)

\* C23: for every sortBy key, lowStock included, sortOrder 'desc' uses the
\* exact negation of the comparison used with 'asc': two items that 'asc'
\* places strictly a before b are placed b before a by 'desc'.
C23_DescNegatesAsc ==
  (SortCall /\ op.args[3] = Str("desc")) =>
    \A i, j \in 1..Len(SortOutput) :
      (i < j /\ compareItems(SortOutput[i], SortOutput[j],
                             IF op.args[2] = Undef THEN Str("name") ELSE op.args[2],
                             Str("asc")) # 0)
        => compareItems(SortOutput[i], SortOutput[j],
                        IF op.args[2] = Undef THEN Str("name") ELSE op.args[2],
                        Str("asc")) > 0

\* the same with the key lowStock left out
C23_DescNegatesAscOtherKeys ==
  (SortCall /\ op.args[3] = Str("desc") /\ op.args[2] # Str("lowStock")) =>
    \A i, j \in 1..Len(SortOutput) :
      (i < j /\ compareItems(SortOutput[i], SortOutput[j],
                             IF op.args[2] = Undef THEN Str("name") ELSE op.args[2],
                             Str("asc")) # 0)
        => compareItems(SortOutput[i], SortOutput[j],
                        IF op.args[2] = Undef THEN Str("name") ELSE op.args[2],
                        Str("asc")) > 0

\* the one request getInventoryStatistics sends: every row of inventory_items,
\* no filter and no range
IsFullFetch(req) ==
  /\ req.kind = "select" /\ req.table = "inventory_items"
  /\ req.range = NoRange /\ ~req.single
  /\ req.orTerm = Nul /\ req.eqCategory = Nul /\ req.eqId = Nul
  /\ req.gte = Nul /\ req.lte = Nul

\* the items the fetch of the last call came back with, as the layer sees them
FetchedItems == TransformRows(answers[1].data).items

RECURSIVE TotalOf(_, _)
TotalOf(list, n) == IF n = 0 THEN 0 ELSE TotalOf(list, n - 1) + list[n].quantity.n

\* a is the integer nearest to total / n, a half counting upwards
IsNearest(a, total, n) == 2 * a * n - n <= 2 * total /\ 2 * total < 2 * a * n + n

\* C24: getInventoryStatistics derives its figures from one unpaginated
\* fetch of all items: totalItems is their number, totalQuantity the sum of
\* their quantities, lowStockItems the number with quantity <=
\* low_stock_threshold, categories the number of distinct category values and
\* averageQuantity the integer nearest to totalQuantity / totalItems (a half
\* rounds up), 0 when there are no items; a failed fetch yields code
\* STATS_ERROR with data null.
C24_StatisticsFigures ==
  (op.name = "getInventoryStatistics" /\ Completed) =>
    /\ ~result.thrown
    /\ Len(calls) = 1 /\ IsFullFetch(calls[1])
    /\ IF ~answers[1].rejected /\ answers[1].error = Nul
       THEN LET n == Len(FetchedItems)
                total == TotalOf(FetchedItems, n)
            IN /\ result.error = Nul
               /\ result.data.totalItems = n
               /\ result.data.totalQuantity = total
               /\ result.data.lowStockItems =
                    Cardinality({ i \in 1..n : LowOnStock(FetchedItems[i]) })
               /\ result.data.categories =
                    Cardinality({ c \in { FetchedItems[i].category : i \in 1..n } : TRUE })
               /\ IF n = 0 THEN result.data.averageQuantity = 0
                  ELSE IsNearest(result.data.averageQuantity, total, n)
       ELSE /\ result.data = Nul
            /\ result.error.code = "STATS_ERROR"

\* two items of different categories and quantities 10 and 5, both low on
\* stock: the average 7.5 is reported as 8
C24_Witness ==
  /\ op.name = "getInventoryStatistics" /\ Completed
  /\ result.error = Nul
  /\ result.data.totalItems = 2
  /\ result.data.totalQuantity = 15
  /\ result.data.averageQuantity = 8
  /\ result.data.categories = 2
  /\ result.data.lowStockItems = 2

\* two items of which one is low on stock
C24_WitnessOneLow ==
  /\ op.name = "getInventoryStatistics" /\ Completed
  /\ result.error = Nul
  /\ result.data.totalItems = 2
  /\ result.data.lowStockItems = 1

\* the fetch failed: STATS_ERROR and no data
C24_WitnessFailedFetch ==
  /\ op.name = "getInventoryStatistics" /\ Completed
  /\ answers[1].rejected
  /\ result.data = Nul
  /\ result.error.code = "STATS_ERROR"

\* no items: every figure is 0
C24_WitnessEmpty ==
  /\ op.name = "getInventoryStatistics" /\ Completed
  /\ result.error = Nul
  /\ result.data.totalItems = 0
  /\ result.data.averageQuantity = 0

\* the property of an object, undefined when it has none of that name
Get(obj, f) == IF f \in DOMAIN obj THEN obj[f] ELSE Undef

\* a snapshot as the Transformer returns it: an absent threshold becomes 10
\* and an absent description ''; a snapshot that is not there stays as it is
ThroughTransformer(snapshot) ==
  IF snapshot.t # "object" THEN snapshot
  ELSE ItemObj(Get(snapshot, "id"), Get(snapshot, "name"), Get(snapshot, "sku"),
               Get(snapshot, "quantity"), Get(snapshot, "category"),
               IF Truthy(Get(snapshot, "low_stock_threshold"))
               THEN snapshot.low_stock_threshold ELSE Num(10),
               IF Truthy(Get(snapshot, "description")) THEN snapshot.description
               ELSE Str(""),
               Get(snapshot, "created_at"), Get(snapshot, "updated_at"))

\* the store's delivery loop has called the function registered on a channel
DeliveryDone == op.name = "deliver" /\ Completed

\* C25: for subscribeToInventoryItems and for subscribeToCategories alike, an
\* exception the registered callback throws while a change event is delivered
\* is caught inside the layer and never reaches the store's delivery loop,
\* and the callback sees the event's before and after snapshots as the
\* Transformer returns them.
C25_DeliveryIsExceptionSafe ==
  DeliveryDone =>
    /\ ~result.thrown
    /\ result.seen.new = ThroughTransformer(op.args[2].new)
    /\ result.seen.old = ThroughTransformer(op.args[2].old)

\* the same for the channels of subscribeToInventoryItems alone
C25_InventoryDeliveryIsExceptionSafe ==
  (DeliveryDone /\ op.args[1].table = "inventory_items") =>
    /\ ~result.thrown
    /\ result.seen.new = ThroughTransformer(op.args[2].new)
    /\ result.seen.old = ThroughTransformer(op.args[2].old)

\* a callback registered with subscribeToInventoryItems throws on an UPDATE
\* whose after snapshot has the threshold NULL: it saw 10, and the exception
\* was logged
C25_WitnessInventory ==
  /\ DeliveryDone
  /\ op.args[1].table = "inventory_items"
  /\ op.args[1].callback = "throws"
  /\ op.args[2].eventType = "UPDATE"
  /\ op.args[2].new.t = "object" /\ op.args[2].new.low_stock_threshold = Nul
  /\ result.seen.new.low_stock_threshold = Num(10)
  /\ result.logged /\ ~result.thrown

\* the update requests the last call has sent to the store
UpdateRequestsSent == { i \in 1..Len(calls) : calls[i].kind = "update" }

\* C26: an item's id never changes after creation: no call of
\* updateInventoryItem or updateMultipleInventoryItems, whatever its update
\* payload contains, sends the store a payload that assigns the id or the
\* created_at column.
C26_UpdatesNeverAssignId ==
  (op.name \in {"updateInventoryItem", "updateMultipleInventoryItems"}) =>
    \A i \in UpdateRequestsSent :
      /\ calls[i].payload.id = Undef
      /\ calls[i].payload.created_at = Undef

\* C27: updateInventoryItem changes only the columns its update payload
\* names: the payload sent to the store has no key that was absent or
\* undefined in the caller's updates, so an update without description leaves
\* the stored description as it was.
C27_UpdateSendsOnlyGivenKeys ==
  (op.name = "updateInventoryItem" /\ Len(calls) = 1 /\ calls[1].kind = "update") =>
    \A c \in {ItemColumns[k] : k \in 1..Len(ItemColumns)} :
      op.args[2][c] = Undef => calls[1].payload[c] = Undef

\* the same for every column but description
C27_UpdateSendsOnlyGivenKeysButDescription ==
  (op.name = "updateInventoryItem" /\ Len(calls) = 1 /\ calls[1].kind = "update") =>
    \A c \in {ItemColumns[k] : k \in 1..Len(ItemColumns)} \ {"description"} :
      op.args[2][c] = Undef => calls[1].payload[c] = Undef

\* the stored rows the store answered the last call's fetch with
FetchedRows == answers[1].data.items

\* the row's threshold column holds a number
ThresholdConfigured(row) == row.low_stock_threshold.t = "number"

\* the returned list holds the item of that row
Lists(row) == \E k \in 1..Len(result.data.items) : result.data.items[k].id = row.id

\* a low-stock listing without limit has returned
UnpaginatedLowStockListing ==
  /\ Completed /\ StoreAnswered
  /\ \/ op.name = "getLowStockItems" /\ GivenLimit(op.args[1]) = 0
     \/ /\ op.name = "searchAndFilterInventoryItems"
        /\ op.args[1].t = "object" /\ Truthy(op.args[1].lowStockOnly)
        /\ GivenLimit(op.args[2]) = 0

\* C28: low-stock classification agrees with the stored record: for every
\* stored item with quantity q and configured low_stock_threshold t, t = 0
\* included, the unpaginated result of getLowStockItems, the result of
\* searchAndFilterInventoryItems with lowStockOnly and the lowStockItems count
\* of getInventoryStatistics include the item exactly when q <= t.
C28_LowStockAgreesWithStoredRecord ==
  /\ UnpaginatedLowStockListing =>
       \A k \in 1..Len(FetchedRows) :
         ThresholdConfigured(FetchedRows[k]) =>
           (Lists(FetchedRows[k]) <=> LowOnStock(FetchedRows[k]))
  /\ (op.name = "getInventoryStatistics" /\ Completed /\ StoreAnswered
      /\ \A k \in 1..Len(FetchedRows) : ThresholdConfigured(FetchedRows[k])) =>
       result.data.lowStockItems =
         Cardinality({ k \in 1..Len(FetchedRows) : LowOnStock(FetchedRows[k]) })

\* the same for the stored items whose threshold is not 0
C28_LowStockAgreesUnlessThresholdZero ==
  /\ UnpaginatedLowStockListing =>
       \A k \in 1..Len(FetchedRows) :
         (ThresholdConfigured(FetchedRows[k]) /\ FetchedRows[k].low_stock_threshold # Num(0)) =>
           (Lists(FetchedRows[k]) <=> LowOnStock(FetchedRows[k]))
  /\ (op.name = "getInventoryStatistics" /\ Completed /\ StoreAnswered
      /\ \A k \in 1..Len(FetchedRows) :
           ThresholdConfigured(FetchedRows[k]) /\ FetchedRows[k].low_stock_threshold # Num(0)) =>
       result.data.lowStockItems =
         Cardinality({ k \in 1..Len(FetchedRows) : LowOnStock(FetchedRows[k]) })

\* a stored item with threshold 3 and quantity 12 is left out of the listing
C28_WitnessLeftOut ==
  /\ UnpaginatedLowStockListing
  /\ \E k \in 1..Len(FetchedRows) :
       /\ FetchedRows[k].low_stock_threshold = Num(3)
       /\ FetchedRows[k].quantity = Num(12)
       /\ ~Lists(FetchedRows[k])

\* page number k of size limit of the low-stock list, as getLowStockItems and
\* the low-stock search cut it out of the rows the store answered with
LowStockPage(rows, limit, k) ==
  Paginate(LowStockFilter(TransformRows(Arr(rows)).items), limit, Num(k * limit.n))

RECURSIVE PagesUpTo(_, _, _)
PagesUpTo(rows, limit, k) ==
  IF k < 0 THEN <<>> ELSE PagesUpTo(rows, limit, k - 1) \o LowStockPage(rows, limit, k)

\* a low-stock listing has returned the rows the store answered with
LowStockListing ==
  /\ Completed /\ StoreAnswered /\ Returned /\ result.error = Nul
  /\ \/ op.name = "getLowStockItems"
     \/ /\ op.name = "searchAndFilterInventoryItems"
        /\ op.args[1].t = "object" /\ Truthy(op.args[1].lowStockOnly)

ListingOptions == IF op.name = "getLowStockItems" THEN op.args[1] ELSE op.args[2]

\* C29: with the store answering alike and a fixed limit L > 0, the pages
\* getLowStockItems and the low-stock search return for the offsets 0, L, 2L,
\* ... are pairwise disjoint, hold at most L items each and, concatenated in
\* order, are the full low-stock list; with limit null or 0 the offset is
\* ignored and the whole list is returned.
C29_LowStockPagesPartitionTheList ==
  LowStockListing =>
    LET limit == GivenLimit(ListingOptions)
        offset == GivenOffset(ListingOptions)
        full == LowStockPage(FetchedRows, Nul, 0)
        last == Len(full)
    IN /\ limit = 0 => result.data.items = full
       /\ (limit > 0 /\ offset % limit = 0) =>
            /\ result.data.items = LowStockPage(FetchedRows, Num(limit), offset \div limit)
            /\ Len(result.data.items) <= limit
            /\ PagesUpTo(FetchedRows, Num(limit), last) = full
            /\ \A j, k \in 0..last :
                 j # k =>
                   \A a \in 1..Len(LowStockPage(FetchedRows, Num(limit), j)) :
                     \A b \in 1..Len(LowStockPage(FetchedRows, Num(limit), k)) :
                       LowStockPage(FetchedRows, Num(limit), j)[a].id
                         # LowStockPage(FetchedRows, Num(limit), k)[b].id

\* limit 1, offset 1 and two low-stock items: the page is the second item of
\* the list
C29_Witness ==
  /\ LowStockListing
  /\ GivenLimit(ListingOptions) = 1
  /\ GivenOffset(ListingOptions) = 1
  /\ Len(LowStockPage(FetchedRows, Nul, 0)) = 2
  /\ result.data.items = <<LowStockPage(FetchedRows, Nul, 0)[2]>>

\* limit 0 and offset 1: the whole list of two items
C29_WitnessNoLimit ==
  /\ LowStockListing
  /\ ListingOptions.t = "object" /\ ListingOptions.limit = Num(0)
  /\ GivenOffset(ListingOptions) = 1
  /\ Len(result.data.items) = 2

\* a string with something in it and no white space at its ends
TrimmedNonEmpty(v) == v.t = "string" /\ v.s # "" /\ Trim(v.s) = v.s

\* the insert requests on inventory_items the last call has sent
InsertsSent ==
  { i \in 1..Len(calls) : calls[i].kind = "insert" /\ calls[i].table = "inventory_items" }

\* C30: after any sequence of createInventoryItem and
\* createMultipleInventoryItems calls, every record the layer has sent to the
\* store's insert satisfies the validator: name, sku and category are trimmed
\* non-empty strings, quantity is an integer >= 0, low_stock_threshold is an
\* integer >= 0 and description is a string.
C30_InsertedRecordsAreValid ==
  \A i \in InsertsSent :
    \A k \in 1..Len(calls[i].rows) :
      LET record == calls[i].rows[k]
          validation == validateInventoryItem(record)
      IN /\ TrimmedNonEmpty(record.name)
         /\ TrimmedNonEmpty(record.sku)
         /\ TrimmedNonEmpty(record.category)
         /\ IsCount(record.quantity)
         /\ IsCount(record.low_stock_threshold)
         /\ record.description.t = "string"
         /\ ~validation.thrown /\ validation.isValid

\* createInventoryItem was given '  Gadget ' with threshold 0 and sent the
\* record named 'Gadget' with threshold 10 and description 'd'
C30_Witness ==
  /\ op.name = "createInventoryItem" /\ Completed
  /\ op.args[1] = ValidB
  /\ InsertsSent = {1}
  /\ calls[1].rows[1].name = Str("Gadget")
  /\ calls[1].rows[1].low_stock_threshold = Num(10)
  /\ calls[1].rows[1].description = Str("d")

\* createMultipleInventoryItems sent two records, one built from an item
\* without threshold and description
C30_WitnessBatch ==
  /\ op.name = "createMultipleInventoryItems" /\ Completed
  /\ InsertsSent = {1}
  /\ Len(calls[1].rows) = 2
  /\ op.args[1].items[1] = ValidA
  /\ calls[1].rows[1].description = Str("")
  /\ calls[1].rows[2].name = Str("Gadget")
====
